---- MODULE Spec2Model ----
(***************************************************************************)
(* Model of the DB Snapshot reconciliation core of the NG/AMS Janitor      *)
(* Thread (src/src/ngamsServer/ngamsServer/ngamsJanitorThread.py):         *)
(* the per-disk snapshot store with its name dictionary, the full          *)
(* three-way check (checkUpdateDbSnapShots) and the change-cache merge     *)
(* (checkDbChangeCache).                                                   *)
(*                                                                         *)
(* Strings the code searches in (file keys, administrative keys) are       *)
(* sequences of tokens; the underscore is a token of its own, so that      *)
(* key.find("___") and key.find("__") are computed, not assumed.           *)
(***************************************************************************)
EXTENDS Integers, Sequences, FiniteSets, TLC

VARIABLES
    cfg,            \* configuration: [snapshot, allowArchive, allowRemove]
    db,             \* central DB, table ngas_files: <<diskId, fileId, ver>> -> SQL row
    fs,             \* fs[d]: the file names that exist under the mount point of d
    snap,           \* snap[d]: the snapshot file of disk d: [exists, data]
    corrupt,        \* corrupt[d]: the snapshot file of d cannot be opened by bsddb
    cache,          \* cache[d]: the change-cache files of d, a set of [name, kind, operation, infos]
    stopEvt,        \* the stop event of the Janitor Thread
    pc,             \* position of the Janitor Thread inside the running operation
    diskIdx,        \* checkUpdateDbSnapShots: index of the disk in the sorted list
    curDisk,        \* the disk the running operation works on
    snapshotDbm,    \* local variable snapshotDbm: 0 (None) or a handle id
    tmpSnapshotDbm, \* local variable tmpSnapshotDbm: 0 (None) or a handle id
    tmp,            \* contents of the temporary DB-derived snapshot
    snapshotDelDbm, \* keys scheduled for removal from the snapshot
    lostFileRefsDbm,\* lost files DBM: key -> file info object (row + tag)
    exc,            \* exception in flight: "none", "stop", "error"
    handles,        \* every bsddb handle opened so far: id -> [kind, disk, mode, closes]
    notifs,         \* lost-files notifications sent, each the set of reported rows
    tmpCacheFiles,  \* checkDbChangeCache: the names of the cache files listed
    cacheIdx,       \* checkDbChangeCache: position in tmpCacheFiles
    outcome,        \* how the last operation ended
    runs,           \* number of operations (full checks, merges) started so far
    pre,            \* history: db, snap and fs when the running operation started
    processed,      \* history: the cache files the running merge has applied
    prevRun,        \* history: disk and applied cache files of the previous merge
    history,        \* history: outcome and starting state of the full checks that ended
    jpc,            \* position of janitorThread / JanitorCycle
    taskIdx,        \* JanitorCycle: the task of the cycle that runs or ran last
    cycles,         \* calls of JanitorCycle that have passed the first stop check
    JanQue,         \* the queue shared with the server
    event_info_list,\* JanitorCycle: the item taken from JanQue
    eventIdx,       \* JanitorCycle: position of the loop over event_info_list
    runCount,       \* srvObj.getJanitorThreadRunCount()
    suspendTime,    \* the suspension time of the configuration, in half seconds
    elapsed,        \* half seconds since the tasks of the cycle ended
    nEvents,        \* events the server has put on JanQue
    arrived,        \* history: disks named by events put early in the running sleep
    logged,         \* history: what error() and alert() have logged
    stopObserved,   \* history: a check of the stop event has raised the stop exception
    phase,          \* the loop of the pass over a disk that runs: "none", "A", "del", "B"
    todo,           \* the keys the running loop has not come to yet
    entryCount,     \* local variable count of the running loop
    unsynced,       \* writes and deletions made to the snapshot since its last sync()
    sinceStop,      \* history: entries the loops came to while the stop event was set
    stopInLoop      \* history: the stop event was set while a loop over a store was running

vars == << cfg, db, fs, snap, corrupt, cache, stopEvt, pc, diskIdx, curDisk,
           snapshotDbm, tmpSnapshotDbm, tmp, snapshotDelDbm, lostFileRefsDbm,
           exc, handles, notifs, tmpCacheFiles, cacheIdx, outcome, runs, pre,
           processed, prevRun, history, jpc, taskIdx, cycles, JanQue,
           event_info_list, eventIdx, runCount, suspendTime, elapsed, nEvents,
           arrived, logged, stopObserved, phase, todo, entryCount, unsynced,
           sinceStop, stopInLoop >>

----------------------------------------------------------------------------
(* Bounds of the model *)

\* Files (disk, file id) that exist anywhere (DB, snapshot or disk) initially.
MaxFiles == 2

----------------------------------------------------------------------------
(* Strings as token sequences *)

US == "_"

\* str(n)
Str(n) == ToString(n)

\* s.find(pat) != -1
Find(s, pat) ==
    \E i \in 1..(Len(s) - Len(pat) + 1) : SubSeq(s, i, i + Len(pat) - 1) = pat

NGAMS_SN_SH_ID2NM_TAG == << US, US, US, "ID2NM", US, US, US >>
NGAMS_SN_SH_NM2ID_TAG == << US, US, US, "NM2ID", US, US, US >>
NGAMS_SN_SH_MAP_COUNT == << US, US, US, "MAP", US, "COUNT", US, US, US >>

\* ngamsLib.genFileKey(diskId, fileId, fileVersion); diskId << >> stands for None
genFileKey(diskId, fileId, fileVer) ==
    IF diskId # << >>
    THEN diskId \o << US >> \o fileId \o << US >> \o fileVer
    ELSE fileId \o << US >> \o fileVer

----------------------------------------------------------------------------
(* The ngas_files row: column index -> value, every value a token sequence *)

\* dbConObj.getNgasFilesMap(): column index -> column name (the columns that
\* identify and locate a file, and one metadata column)
NgasFilesMap ==
    << << "disk", US, "id" >>,
       << "file", US, "name" >>,
       << "file", US, "id" >>,
       << "file", US, "version" >>,
       << "checksum" >> >>

Cols == DOMAIN NgasFilesMap

\* ... and column name -> column index
NgasFilesMapIdx(name) == CHOOSE n \in Cols : NgasFilesMap[n] = name

NGAS_FILES_DISK_ID   == NgasFilesMapIdx(<< "disk", US, "id" >>)
NGAS_FILES_FILE_NAME == NgasFilesMapIdx(<< "file", US, "name" >>)
NGAS_FILES_FILE_ID   == NgasFilesMapIdx(<< "file", US, "id" >>)
NGAS_FILES_FILE_VER  == NgasFilesMapIdx(<< "file", US, "version" >>)
NGAS_FILES_CHECKSUM  == NgasFilesMapIdx(<< "checksum" >>)

Disks == { << "d1" >>, << "d2" >> }

\* getDiskIdsMtPtsMountedDisks + sort(): the disks in mount point order
diskIdMtPtList == << << "d1" >>, << "d2" >> >>

\* file ids: a plain one, one holding "__" and one holding "___" (the file id is
\* the base name of the URI the file was archived or registered with)
FileIds == { << "f" >>, << "g", US, US, "h" >>, << "u", US, US, US, "x" >> }

Checksums == { << "c1" >>, << "c2" >> }

\* the path of a file relative to the mount point
Filename(fileId, fileVer) == << "saf" >> \o fileId \o fileVer

Row(diskId, fileId, fileVer, checksum) ==
    [n \in Cols |->
        CASE n = NGAS_FILES_DISK_ID   -> diskId
          [] n = NGAS_FILES_FILE_NAME -> Filename(fileId, fileVer)
          [] n = NGAS_FILES_FILE_ID   -> fileId
          [] n = NGAS_FILES_FILE_VER  -> fileVer
          [] n = NGAS_FILES_CHECKSUM  -> checksum]

\* _genFileKey(fileInfo)
GenFileKey(fileInfo) ==
    genFileKey(<< >>, fileInfo[NGAS_FILES_FILE_ID], fileInfo[NGAS_FILES_FILE_VER])

DbKey(row) ==
    << row[NGAS_FILES_DISK_ID], row[NGAS_FILES_FILE_ID], row[NGAS_FILES_FILE_VER] >>

----------------------------------------------------------------------------
(* The snapshot store (bsddb hash file): a function key -> value *)

EmptyStore == [k \in {} |-> 0]

\* snapShotDbObj[key] = cPickle.dumps(val, 1)
addInDbm(store, k, v) ==
    [x \in (DOMAIN store) \cup {k} |-> IF x = k THEN v ELSE store[x]]

\* del snapshotDbm[key]
delInDbm(store, k) == [x \in (DOMAIN store) \ {k} |-> store[x]]

\* dbSnapshot.has_key(key)
has_key(store, k) == k \in DOMAIN store

\* _encName without the look-up of the name: an ID is allocated on every call
encName_AlwaysAllocates(store, name) ==
    LET nm2IdTag == NGAMS_SN_SH_NM2ID_TAG \o name
        count == IF has_key(store, NGAMS_SN_SH_MAP_COUNT)
                 THEN store[NGAMS_SN_SH_MAP_COUNT] + 1
                 ELSE 0
        id2NmTag == NGAMS_SN_SH_ID2NM_TAG \o << Str(count) >>
    IN  [dbm |-> addInDbm(addInDbm(addInDbm(store, NGAMS_SN_SH_MAP_COUNT, count),
                                   nm2IdTag, count),
                          id2NmTag, name),
         nameId |-> count]

\* _encName(dbSnapshot, name): the store after the call and the ID of the name.
\* The three keys are written in the order count, name -> ID, ID -> name.
encName(store, name) ==
    LET nm2IdTag == NGAMS_SN_SH_NM2ID_TAG \o name
    IN  IF has_key(store, nm2IdTag)
        THEN [dbm |-> store, nameId |-> store[nm2IdTag]]
        ELSE LET count == IF has_key(store, NGAMS_SN_SH_MAP_COUNT)
                          THEN store[NGAMS_SN_SH_MAP_COUNT] + 1
                          ELSE 0
                 nameId == count
                 id2NmTag == NGAMS_SN_SH_ID2NM_TAG \o << Str(nameId) >>
                 s1 == addInDbm(store, NGAMS_SN_SH_MAP_COUNT, count)
                 s2 == addInDbm(s1, nm2IdTag, nameId)
                 s3 == addInDbm(s2, id2NmTag, name)
             IN  [dbm |-> s3, nameId |-> nameId]

RECURSIVE encFileInfoFrom(_, _, _, _)
\* the loop of _encFileInfo from column n on, tmpDic being the dictionary so far
\* (r, the result of _encName for the column, is bound once as a value)
encFileInfoFrom(store, fileInfo, n, tmpDic) ==
    IF n \notin Cols
    THEN [dbm |-> store, dic |-> tmpDic]
    ELSE CHOOSE res \in
            {encFileInfoFrom(r.dbm, fileInfo, n + 1,
                             addInDbm(tmpDic, r.nameId, fileInfo[n])) :
                r \in {encName(store, NgasFilesMap[n])}} : TRUE

\* _encFileInfo(dbConObj, dbSnapshot, fileInfo): the store after the call and the
\* dictionary column ID -> value
encFileInfo(store, fileInfo) == encFileInfoFrom(store, fileInfo, 1, EmptyStore)

\* None
None == << >>

\* _encFileInfo2Obj(dbConObj, dbSnapshot, encFileInfoDic): ok is FALSE when None
\* is returned (an ID has no ID -> name entry); otherwise row is the SQL row handed
\* to unpackSqlResult. The IDs are visited in ascending order, a later ID
\* overwrites the column an earlier one has set.
encFileInfo2Obj(store, encFileInfoDic) ==
    LET idxKeys == DOMAIN encFileInfoDic
        kid(idx) == NGAMS_SN_SH_ID2NM_TAG \o << Str(idx) >>
    IN  IF \E idx \in idxKeys : ~has_key(store, kid(idx))
        THEN [ok |-> FALSE, row |-> [n \in Cols |-> None]]
        ELSE [ok |-> TRUE,
              row |-> [n \in Cols |->
                         LET forN == {idx \in idxKeys :
                                         NgasFilesMapIdx(store[kid(idx)]) = n}
                         IN  IF forN = {} THEN None
                             ELSE encFileInfoDic[CHOOSE i \in forN :
                                                   \A j \in forN : j <= i]]]

\* ngamsFileInfo getters on the decoded object
getDiskId(obj)      == obj[NGAS_FILES_DISK_ID]
getFileId(obj)      == obj[NGAS_FILES_FILE_ID]
getFileVersion(obj) == obj[NGAS_FILES_FILE_VER]
getFilename(obj)    == obj[NGAS_FILES_FILE_NAME]

\* _updateSnapshot answering yes whatever requests are allowed
updateSnapshot_Always(c) == TRUE

\* _updateSnapshot(ngamsCfgObj)
updateSnapshot(c) == c.allowArchive \/ c.allowRemove

\* key.find("___") != -1: the test for an administrative element in the two loops
IsAdminElement(key) == Find(key, << US, US, US >>)

\* str(key).find("__") != -1: the test of the deletion loop
SkippedByDeletion(key) == Find(key, << US, US >>)

----------------------------------------------------------------------------
(* The central DB (ngas_files) *)

\* dbConObj.fileInDb(diskId, fileId, fileVersion)
fileInDb(d, diskId, fileId, fileVer) == << diskId, fileId, fileVer >> \in DOMAIN d

\* ngamsFileInfo.write(hostId, dbConObj, ...): insert the row or update it
writeFileInfo(d, row) == addInDbm(d, DbKey(row), row)

\* _delFileEntry(hostId, dbConObj, fileInfoObj)
delFileEntry(d, obj) ==
    IF fileInDb(d, getDiskId(obj), getFileId(obj), getFileVersion(obj))
    THEN delInDbm(d, DbKey(obj))
    ELSE d

\* dbConObj.dumpFileInfoList(diskId): the rows of the disk
dumpFileInfoList(d, diskId) == {d[k] : k \in {x \in DOMAIN d : x[1] = diskId}}

\* os.path.exists(mtPt + "/" + filename)
pathExists(f, diskId, filename) == filename \in f[diskId]

----------------------------------------------------------------------------
(* bsddb handles *)

\* bsddb.hashopen(...): a new handle, its id is its position in handles
hashopen(h, kind, diskId, mode) ==
    Append(h, [kind |-> kind, disk |-> diskId, mode |-> mode, closes |-> 0])

\* dbm.close()
close(h, id) == [h EXCEPT ![id].closes = @ + 1]

\* the contents a handle gives access to
Contents(h, id, s, t) == IF h[id].kind = "snapshot" THEN s[h[id].disk].data ELSE t

\* "if dbm:" for a local variable holding None or a bsddb object. The object has
\* no __nonzero__, so its truth value is len(dbm) > 0, and len() of a closed
\* object raises bsddb.error.
Truth(h, id, s, t) ==
    IF id = 0 THEN "false"
    ELSE IF h[id].closes > 0 THEN "raise"
    ELSE IF DOMAIN Contents(h, id, s, t) # {} THEN "true"
    ELSE "false"

----------------------------------------------------------------------------
(* Initial states *)

Ver1 == << "1" >>

\* the files the model knows of: three file ids on disk d1, one on disk d2
FileSlots == ({<< "d1" >>} \X FileIds) \cup {<< << "d2" >>, << "f" >> >>}

\* where a file is known initially; stale: the snapshot entry holds an older
\* checksum than the DB row
SlotStates ==
    {s \in [inDb : BOOLEAN, inSnap : BOOLEAN, onDisk : BOOLEAN, stale : BOOLEAN] :
        /\ s.inDb \/ s.inSnap
        /\ s.stale => (s.inDb /\ s.inSnap)}

Cfgs ==
    { [snapshot |-> TRUE,  allowArchive |-> TRUE,  allowRemove |-> TRUE],
      [snapshot |-> TRUE,  allowArchive |-> TRUE,  allowRemove |-> FALSE],
      [snapshot |-> TRUE,  allowArchive |-> FALSE, allowRemove |-> FALSE],
      [snapshot |-> FALSE, allowArchive |-> TRUE,  allowRemove |-> TRUE] }

RECURSIVE AddRows(_, _)
\* a store after the rows have been encoded and added (lines 540-543, 879-885)
AddRows(store, rows) ==
    IF rows = {} THEN store
    ELSE LET r == CHOOSE x \in rows : TRUE
             e == encFileInfo(store, r)
         IN  AddRows(addInDbm(e.dbm, GenFileKey(r), e.dic), rows \ {r})

InitFiles(S, st, ex) ==
    /\ db = [k \in {<< x[1], x[2], Ver1 >> : x \in {y \in S : st[y].inDb}} |->
                Row(k[1], k[2], Ver1, << "c1" >>)]
    /\ fs = [d \in Disks |->
                {Filename(x[2], Ver1) : x \in {y \in S : y[1] = d /\ st[y].onDisk}}]
    /\ snap = [d \in Disks |->
                LET mine == {y \in S : y[1] = d /\ st[y].inSnap}
                    rows == {Row(d, y[2], Ver1,
                                 IF st[y].stale THEN << "c2" >> ELSE << "c1" >>) :
                             y \in mine}
                IN  IF mine = {} THEN [exists |-> ex[d], data |-> EmptyStore]
                    ELSE [exists |-> TRUE, data |-> AddRows(EmptyStore, rows)]]

\* an item of JanQue: the run count the Janitor Thread puts, or the list of the
\* disks an event names; NoItem: nothing taken yet
CountItem(n) == [kind |-> "count", n |-> n, disks |-> << >>]
EventItem(disks) == [kind |-> "events", n |-> 0, disks |-> disks]
NoItem == [kind |-> "none", n |-> 0, disks |-> << >>]

InitLocals ==
    /\ stopEvt = FALSE
    /\ stopObserved = FALSE
    /\ pc = "idle"
    /\ diskIdx = 0
    /\ curDisk = None
    /\ snapshotDbm = 0
    /\ tmpSnapshotDbm = 0
    /\ tmp = EmptyStore
    /\ snapshotDelDbm = {}
    /\ lostFileRefsDbm = EmptyStore
    /\ exc = "none"
    /\ handles = << >>
    /\ notifs = << >>
    /\ tmpCacheFiles = << >>
    /\ cacheIdx = 0
    /\ outcome = "none"
    /\ runs = 0
    /\ pre = [db |-> db, snap |-> snap, fs |-> fs]
    /\ processed = << >>
    /\ prevRun = [disk |-> None, processed |-> << >>]
    /\ history = << >>
    /\ taskIdx = 0
    /\ cycles = 0
    /\ JanQue = << >>
    /\ event_info_list = NoItem
    /\ eventIdx = 0
    /\ runCount = 0
    /\ elapsed = 0
    /\ nEvents = 0
    /\ arrived = {}
    /\ logged = {}
    /\ phase = "none"
    /\ todo = {}
    /\ entryCount = 0
    /\ unsynced = 0
    /\ sinceStop = 0
    /\ stopInLoop = FALSE

\* Before the start-up check: any combination of DB rows, snapshot entries and
\* files for at most MaxFiles files, no change-cache files.
Init ==
    /\ cfg \in Cfgs
    /\ \E S \in SUBSET FileSlots :
         /\ Cardinality(S) <= MaxFiles
         /\ \E st \in [S -> SlotStates], ex \in [Disks -> BOOLEAN] :
              InitFiles(S, st, ex)
    /\ corrupt \in {c \in [Disks -> BOOLEAN] :
                      /\ \A d \in Disks : c[d] => snap[d].exists
                      /\ Cardinality({d \in Disks : c[d]}) <= 1}
    /\ cache = [d \in Disks |-> {}]
    /\ jpc = "off"
    /\ suspendTime = 0
    /\ InitLocals

----------------------------------------------------------------------------
(* checkUpdateDbSnapShots: the full check of every mounted disk *)

MergeVars == << cache, tmpCacheFiles, cacheIdx, processed, prevRun >>

\* the history kept over a restart of the Janitor Thread
RestartVars == << history >>

\* the state of the loops of a pass, entry by entry
LoopVars == << phase, todo, entryCount, unsynced, sinceStop, stopInLoop >>

\* the state of janitorThread and JanitorCycle
JanitorVars == << jpc, taskIdx, cycles, JanQue, event_info_list, eventIdx, runCount,
                 suspendTime, elapsed, nEvents, arrived, logged >>

\* lines 446-492: nothing is done when the feature is off; otherwise the lost
\* files DBM is created anew and the loop over the disks starts
SweepStart ==
    /\ pc = "idle"
    /\ snapshotDbm' = 0
    /\ tmpSnapshotDbm' = 0
    /\ pre' = [db |-> db, snap |-> snap, fs |-> fs]
    /\ runs' = runs + 1
    /\ IF ~cfg.snapshot
       THEN /\ pc' = "done"
            /\ outcome' = "off"
            /\ UNCHANGED << lostFileRefsDbm, diskIdx >>
       ELSE /\ pc' = "loop"
            /\ outcome' = "running"
            /\ lostFileRefsDbm' = EmptyStore
            /\ diskIdx' = 1
    /\ UNCHANGED << cfg, stopObserved, RestartVars, JanitorVars, LoopVars, db, fs, snap, corrupt, stopEvt, curDisk, tmp,
                    snapshotDelDbm, exc, handles, notifs, MergeVars >>

\* _openDbSnapshot(ngamsCfgObj, mtPt) as a result: what is raised or returned, the
\* snapshot files and the handles afterwards
openDbSnapshot(c, s, h, bad, diskId) ==
    IF s[diskId].exists
    THEN IF bad[diskId]
         THEN [raised |-> TRUE, dbm |-> 0, snap |-> s, handles |-> h]
         ELSE [raised |-> FALSE, dbm |-> Len(h) + 1, snap |-> s,
               handles |-> hashopen(h, "snapshot", diskId,
                                    IF updateSnapshot(c) THEN "w" ELSE "r")]
    ELSE IF updateSnapshot(c)
         THEN [raised |-> FALSE, dbm |-> Len(h) + 1,
               snap |-> [s EXCEPT ![diskId] = [exists |-> TRUE, data |-> EmptyStore]],
               handles |-> hashopen(h, "snapshot", diskId, "c")]
         ELSE [raised |-> FALSE, dbm |-> 0, snap |-> s, handles |-> h]

\* lines 495-505: next disk of the list; the stop check is made before the try
\* block is entered; the store of the disk is opened
DiskLoop ==
    /\ pc = "loop"
    /\ IF diskIdx > Len(diskIdMtPtList)
       THEN /\ pc' = "report"
            /\ UNCHANGED << curDisk, exc, snapshotDbm, snap, handles >>
       ELSE IF stopEvt
       THEN /\ exc' = "stop"
            /\ pc' = "exit"
            /\ UNCHANGED << curDisk, snapshotDbm, snap, handles >>
       ELSE LET diskId == diskIdMtPtList[diskIdx]
                r == openDbSnapshot(cfg, snap, handles, corrupt, diskId)
            IN  /\ curDisk' = diskId
                /\ snap' = r.snap
                /\ handles' = r.handles
                /\ IF r.raised
                   THEN /\ exc' = "error"
                        /\ pc' = "finally"
                        /\ UNCHANGED snapshotDbm
                   ELSE /\ snapshotDbm' = r.dbm
                        /\ pc' = IF r.dbm = 0 THEN "finally" ELSE "build"
                        /\ UNCHANGED exc
    /\ stopObserved' = (stopObserved \/ exc' = "stop")
    /\ UNCHANGED << cfg, RestartVars, JanitorVars, LoopVars, db, fs, corrupt, stopEvt, diskIdx, tmpSnapshotDbm, tmp,
                    snapshotDelDbm, lostFileRefsDbm, notifs, outcome, pre,
                    runs, MergeVars >>

\* lines 531-552: the temporary snapshot is created from the DB rows of the disk;
\* the stop event is checked after each row added
BuildTmp ==
    /\ pc = "build"
    /\ handles' = hashopen(handles, "tmp", curDisk, "c")
    /\ tmpSnapshotDbm' = Len(handles) + 1
    /\ LET rows == dumpFileInfoList(db, curDisk)
       IN  IF stopEvt /\ rows # {}
           THEN /\ \E r \in rows : tmp' = AddRows(EmptyStore, {r})
                /\ exc' = "stop"
                /\ pc' = "finally"
           ELSE /\ tmp' = AddRows(EmptyStore, rows)
                /\ pc' = "passA"
                /\ UNCHANGED exc
    /\ snapshotDelDbm' = {}
    /\ stopObserved' = (stopObserved \/ exc' = "stop")
    /\ UNCHANGED << cfg, RestartVars, JanitorVars, LoopVars, db, fs, snap, corrupt, stopEvt, diskIdx, curDisk,
                    snapshotDbm, lostFileRefsDbm, notifs, outcome, pre, runs, MergeVars >>

\* lines 583-630: one entry of the loop over the snapshot. st holds the temporary
\* snapshot, the DB, the deletion DBM and the lost files DBM.
PassAEntry(st, c, f, snapData, diskId, key) ==
    LET value == snapData[key]
    IN  IF IsAdminElement(key)
        THEN IF ~has_key(st.tmp, key)
             THEN [st EXCEPT !.tmp = addInDbm(st.tmp, key, value)]
             ELSE st
        ELSE LET o == encFileInfo2Obj(snapData, value)
                 tmpFileObj == o.row
                 complFilename == getFilename(tmpFileObj)
             IN  IF ~o.ok THEN st
                 ELSE IF has_key(st.tmp, key)
                 THEN IF ~pathExists(f, diskId, complFilename)
                      THEN LET fileKey == genFileKey(getDiskId(tmpFileObj),
                                                     getFileId(tmpFileObj),
                                                     getFileVersion(tmpFileObj))
                           IN  [st EXCEPT !.lost =
                                   addInDbm(st.lost, fileKey,
                                            [row |-> tmpFileObj,
                                             tag |-> complFilename])]
                      ELSE st
                 ELSE IF pathExists(f, diskId, complFilename)
                      THEN [st EXCEPT !.db = writeFileInfo(st.db, tmpFileObj),
                                      !.tmp = addInDbm(st.tmp, key, value)]
                      ELSE IF updateSnapshot(c)
                           THEN [st EXCEPT !.del = st.del \cup {key}]
                           ELSE st

RECURSIVE PassALoop(_, _, _, _, _, _)
\* the loop over the given entries of the snapshot; the entries do not depend on
\* one another, so the order of the iteration is immaterial
PassALoop(st, c, f, snapData, diskId, keys) ==
    IF keys = {} THEN st
    ELSE LET key == CHOOSE k \in keys : TRUE
         IN  PassALoop(PassAEntry(st, c, f, snapData, diskId, key),
                       c, f, snapData, diskId, keys \ {key})

\* lines 557-640: the loop over the entries of the snapshot of the disk
PassA ==
    /\ pc = "passA"
    /\ LET data == snap[curDisk].data
           st == PassALoop([tmp |-> tmp, db |-> db, del |-> {},
                            lost |-> lostFileRefsDbm],
                           cfg, fs, data, curDisk, DOMAIN data)
       IN  /\ tmp' = st.tmp
           /\ db' = st.db
           /\ snapshotDelDbm' = st.del
           /\ lostFileRefsDbm' = st.lost
    /\ pc' = "del"
    /\ UNCHANGED << cfg, stopObserved, RestartVars, JanitorVars, LoopVars, fs, snap, corrupt, stopEvt, diskIdx, curDisk, snapshotDbm,
                    tmpSnapshotDbm, exc, handles, notifs, outcome, pre, runs, MergeVars >>

RECURSIVE DelLoop(_, _)
\* lines 661-669: the scheduled keys are removed, those holding "__" are skipped
DelLoop(store, keys) ==
    IF keys = {} THEN store
    ELSE LET key == CHOOSE k \in keys : TRUE
         IN  DelLoop(IF SkippedByDeletion(key) THEN store ELSE delInDbm(store, key),
                     keys \ {key})

\* lines 661-676: the deletions scheduled by the first loop are applied
ApplyDeletions ==
    /\ pc = "del"
    /\ snap' = [snap EXCEPT ![curDisk].data = DelLoop(@, snapshotDelDbm)]
    /\ snapshotDelDbm' = {}
    /\ pc' = "passB"
    /\ UNCHANGED << cfg, stopObserved, RestartVars, JanitorVars, LoopVars, db, fs, corrupt, stopEvt, diskIdx, curDisk, snapshotDbm,
                    tmpSnapshotDbm, tmp, lostFileRefsDbm, exc, handles, notifs,
                    outcome, pre, runs, MergeVars >>

\* the second loop without the insertion of a DB entry found on disk (line 719)
PassBEntry_NoInsert(st, c, f, tmpData, diskId, key) ==
    LET value == tmpData[key]
    IN  IF IsAdminElement(key)
        THEN IF ~has_key(st.snap, key)
             THEN [st EXCEPT !.snap = addInDbm(st.snap, key, value)]
             ELSE st
        ELSE IF ~has_key(st.snap, key)
        THEN LET o == encFileInfo2Obj(tmpData, value)
             IN  IF ~o.ok \/ pathExists(f, diskId, getFilename(o.row)) THEN st
                 ELSE [st EXCEPT !.db = delFileEntry(st.db, o.row)]
        ELSE IF updateSnapshot(c)
             THEN [st EXCEPT !.snap = addInDbm(st.snap, key, value)]
             ELSE st

\* lines 699-728: one entry of the loop over the temporary snapshot. st holds the
\* contents of the snapshot of the disk and the DB.
PassBEntry(st, c, f, tmpData, diskId, key) ==
    LET value == tmpData[key]
    IN  IF IsAdminElement(key)
        THEN IF ~has_key(st.snap, key)
             THEN [st EXCEPT !.snap = addInDbm(st.snap, key, value)]
             ELSE st
        ELSE IF ~has_key(st.snap, key)
        THEN LET o == encFileInfo2Obj(tmpData, value)
                 tmpFileObj == o.row
                 complFilename == getFilename(tmpFileObj)
             IN  IF ~o.ok THEN st
                 ELSE IF pathExists(f, diskId, complFilename)
                      THEN IF updateSnapshot(c)
                           THEN [st EXCEPT !.snap = addInDbm(st.snap, key, value)]
                           ELSE st
                      ELSE [st EXCEPT !.db = delFileEntry(st.db, tmpFileObj)]
        ELSE IF updateSnapshot(c)
             THEN [st EXCEPT !.snap = addInDbm(st.snap, key, value)]
             ELSE st

RECURSIVE PassBLoop(_, _, _, _, _, _)
\* the loop over the given entries of the temporary snapshot; the entries do not
\* depend on one another, so the order of the iteration is immaterial
PassBLoop(st, c, f, tmpData, diskId, keys) ==
    IF keys = {} THEN st
    ELSE LET key == CHOOSE k \in keys : TRUE
         IN  PassBLoop(PassBEntry(st, c, f, tmpData, diskId, key),
                       c, f, tmpData, diskId, keys \ {key})

\* the entries of the second loop that write an administrative element the
\* snapshot lacks (line 704, made whatever the mode the snapshot is opened in)
AdminWrites(tmpData, snapData) ==
    {k \in DOMAIN tmpData : IsAdminElement(k) /\ ~has_key(snapData, k)}

\* lines 685-750: the loop over the entries of the temporary snapshot. A write to
\* a snapshot opened read-only raises; the file entries visited before it (any of
\* them, the order of a hash file is not known) have been handled by then.
PassB ==
    /\ pc = "passB"
    /\ LET data == snap[curDisk].data
           bad == IF handles[snapshotDbm].mode = "r"
                  THEN AdminWrites(tmp, data) ELSE {}
           st0 == [snap |-> data, db |-> db]
       IN  IF bad = {}
           THEN LET st == PassBLoop(st0, cfg, fs, tmp, curDisk, DOMAIN tmp)
                IN  /\ snap' = [snap EXCEPT ![curDisk].data = st.snap]
                    /\ db' = st.db
                    /\ UNCHANGED exc
           ELSE \E P \in SUBSET {k \in DOMAIN tmp : ~IsAdminElement(k)} :
                    LET st == PassBLoop(st0, cfg, fs, tmp, curDisk, P)
                    IN  /\ snap' = [snap EXCEPT ![curDisk].data = st.snap]
                        /\ db' = st.db
                        /\ exc' = "error"
    /\ pc' = "finally"
    /\ UNCHANGED << cfg, stopObserved, RestartVars, JanitorVars, LoopVars, fs, corrupt, stopEvt, diskIdx, curDisk, snapshotDbm,
                    tmpSnapshotDbm, tmp, snapshotDelDbm, lostFileRefsDbm, handles,
                    notifs, outcome, pre, runs, MergeVars >>

\* lines 752-757: the finally block of the disk. The local variables still hold
\* the handles of the previous disk when the current one has not replaced them.
DiskFinally ==
    /\ pc = "finally"
    /\ LET t1 == Truth(handles, snapshotDbm, snap, tmp)
           h1 == IF t1 = "true" THEN close(handles, snapshotDbm) ELSE handles
           t2 == Truth(h1, tmpSnapshotDbm, snap, tmp)
           h2 == IF t2 = "true" THEN close(h1, tmpSnapshotDbm) ELSE h1
       IN  IF t1 = "raise"
           THEN /\ exc' = "error"
                /\ pc' = "exit"
                /\ UNCHANGED << handles, diskIdx >>
           ELSE IF t2 = "raise"
           THEN /\ exc' = "error"
                /\ pc' = "exit"
                /\ handles' = h1
                /\ UNCHANGED diskIdx
           ELSE /\ handles' = h2
                /\ UNCHANGED exc
                /\ IF exc = "none"
                   THEN pc' = "loop" /\ diskIdx' = diskIdx + 1
                   ELSE pc' = "exit" /\ UNCHANGED diskIdx
    /\ UNCHANGED << cfg, stopObserved, RestartVars, JanitorVars, LoopVars, db, fs, snap, corrupt, stopEvt, curDisk, snapshotDbm,
                    tmpSnapshotDbm, tmp, snapshotDelDbm, lostFileRefsDbm, notifs,
                    outcome, pre, runs, MergeVars >>

\* the report sent whether or not a lost file has been found (without line 762)
SweepReport_AlwaysNotifies ==
    /\ pc = "report"
    /\ notifs' = Append(notifs, lostFileRefsDbm)
    /\ lostFileRefsDbm' = EmptyStore
    /\ outcome' = "completed"
    /\ pc' = "done"
    /\ UNCHANGED << cfg, stopObserved, RestartVars, JanitorVars, LoopVars, db, fs, snap, corrupt, stopEvt, diskIdx, curDisk,
                    snapshotDbm, tmpSnapshotDbm, tmp, snapshotDelDbm, exc, handles,
                    pre, runs, MergeVars >>

\* lines 759-802: the lost files found are reported in one notification, and the
\* lost files DBM is removed
SweepReport ==
    /\ pc = "report"
    /\ LET noOfLostFiles == Cardinality(DOMAIN lostFileRefsDbm)
       IN  notifs' = IF noOfLostFiles # 0
                     THEN Append(notifs, lostFileRefsDbm)
                     ELSE notifs
    /\ lostFileRefsDbm' = EmptyStore
    /\ outcome' = "completed"
    /\ pc' = "done"
    /\ UNCHANGED << cfg, stopObserved, RestartVars, JanitorVars, LoopVars, db, fs, snap, corrupt, stopEvt, diskIdx, curDisk,
                    snapshotDbm, tmpSnapshotDbm, tmp, snapshotDelDbm, exc, handles,
                    pre, runs, MergeVars >>

\* the exception leaves checkUpdateDbSnapShots (caught at lines 1196-1202)
SweepExit ==
    /\ pc = "exit"
    /\ outcome' = IF exc = "stop" THEN "stopped" ELSE "failed"
    /\ pc' = "done"
    /\ UNCHANGED << cfg, stopObserved, RestartVars, JanitorVars, LoopVars, db, fs, snap, corrupt, stopEvt, diskIdx, curDisk,
                    snapshotDbm, tmpSnapshotDbm, tmp, snapshotDelDbm,
                    lostFileRefsDbm, exc, handles, notifs, pre, runs, MergeVars >>

\* the server sets the stop event of the Janitor Thread
SetStop ==
    /\ ~stopEvt
    /\ pc \notin {"idle", "done"}
    /\ stopEvt' = TRUE
    /\ stopInLoop' = (phase \in {"A", "B"})
    /\ UNCHANGED << cfg, stopObserved, RestartVars, JanitorVars, phase, todo,
                    entryCount, unsynced, sinceStop, db, fs, snap, corrupt, cache,
                    pc, diskIdx, curDisk,
                    snapshotDbm, tmpSnapshotDbm, tmp, snapshotDelDbm,
                    lostFileRefsDbm, exc, handles, notifs, tmpCacheFiles, cacheIdx,
                    outcome, runs, pre, processed, prevRun >>

Next ==
    \/ SweepStart
    \/ DiskLoop
    \/ BuildTmp
    \/ PassA
    \/ ApplyDeletions
    \/ PassB
    \/ DiskFinally
    \/ SweepReport
    \/ SweepExit
    \/ SetStop

Spec == Init /\ [][Next]_vars

----------------------------------------------------------------------------
(* The full check run again: the server is started again after the check ended *)

\* Full checks run in one behaviour.
MaxSweeps == 2

\* lines 1193-1202 of a new server run: janitorThread calls checkUpdateDbSnapShots
\* anew, with a new stop event; the handles of the old process are gone
SweepAgain ==
    /\ pc = "done"
    /\ Len(history) < MaxSweeps - 1
    /\ history' = Append(history, [outcome |-> outcome, pre |-> pre])
    /\ pc' = "idle"
    /\ stopEvt' = FALSE
    /\ exc' = "none"
    /\ handles' = << >>
    /\ snapshotDbm' = 0
    /\ tmpSnapshotDbm' = 0
    /\ stopObserved' = FALSE
    /\ UNCHANGED << cfg, JanitorVars, LoopVars, db, fs, snap, corrupt, diskIdx, curDisk, tmp,
                    snapshotDelDbm, lostFileRefsDbm, notifs, outcome, runs, pre,
                    MergeVars >>

NextRestart ==
    \/ SweepStart
    \/ DiskLoop
    \/ BuildTmp
    \/ PassA
    \/ ApplyDeletions
    \/ PassB
    \/ DiskFinally
    \/ SweepReport
    \/ SweepExit
    \/ SetStop
    \/ SweepAgain

SpecRestart == Init /\ [][NextRestart]_vars

----------------------------------------------------------------------------
(* Properties of the full check *)

\* the full check has run over every disk and has sent its report
Completed == pc = "done" /\ outcome = "completed"

FileKeyOf(fileId) == genFileKey(None, fileId, Ver1)

WasInDb(x)   == << x[1], x[2], Ver1 >> \in DOMAIN pre.db
WasInSnap(x) == has_key(pre.snap[x[1]].data, FileKeyOf(x[2]))
WasOnDisk(x) == pathExists(pre.fs, x[1], Filename(x[2], Ver1))

IsInDb(x)   == << x[1], x[2], Ver1 >> \in DOMAIN db
IsInSnap(x) == has_key(snap[x[1]].data, FileKeyOf(x[2]))
IsOnDisk(x) == pathExists(fs, x[1], Filename(x[2], Ver1))

\* the last notification reports the file as lost
ReportedLost(x) ==
    /\ Len(notifs) > 0
    /\ has_key(notifs[Len(notifs)], genFileKey(x[1], x[2], Ver1))

\* the files whose key holds no "__": no loop takes them for an administrative
\* element and the deletion loop does not skip them
PlainSlots == {x \in FileSlots : ~SkippedByDeletion(FileKeyOf(x[2]))}

\* C1: snapshot opened read-write: after a completed full check, a file that was
\* in the DB, not in the snapshot and on disk is in the snapshot, its DB row is
\* unchanged, and every file that is in the DB and on disk has a snapshot entry.
C1_DbOnDiskGetsSnapshotEntry ==
    (Completed /\ updateSnapshot(cfg)) =>
        /\ \A x \in FileSlots :
              (WasInDb(x) /\ ~WasInSnap(x) /\ WasOnDisk(x)) =>
                  /\ IsInSnap(x)
                  /\ IsInDb(x)
                  /\ db[<< x[1], x[2], Ver1 >>] = pre.db[<< x[1], x[2], Ver1 >>]
        /\ \A x \in FileSlots : (IsInDb(x) /\ IsOnDisk(x)) => IsInSnap(x)

C1_Witness ==
    /\ Completed /\ updateSnapshot(cfg)
    /\ \E x \in FileSlots :
          WasInDb(x) /\ ~WasInSnap(x) /\ WasOnDisk(x) /\ IsInSnap(x)

C2For(slots) ==
    Completed =>
        \A x \in slots :
            (WasInDb(x) /\ WasInSnap(x) /\ ~WasOnDisk(x)) =>
                IsInSnap(x) /\ IsInDb(x) /\ ReportedLost(x)

\* C2: after a completed full check, a file that was in the DB and in the
\* snapshot and is absent from disk is still in both, and the lost-files
\* notification sent reports it.
C2_LostFileKeptAndReported == C2For(FileSlots)

C2_Plain == C2For(PlainSlots)

C3For(slots) ==
    Completed =>
        \A x \in slots :
            (~WasInDb(x) /\ WasInSnap(x) /\ WasOnDisk(x)) =>
                IsInDb(x) /\ IsInSnap(x)

\* C3: after a completed full check, a file that was in the snapshot, not in the
\* DB and on disk is in the DB and still in the snapshot.
C3_SnapshotOnDiskGetsDbRow == C3For(FileSlots)

C3_Plain == C3For(PlainSlots)

C4For(slots) ==
    Completed =>
        \A x \in slots :
            (~WasInDb(x) /\ WasInSnap(x) /\ ~WasOnDisk(x)) =>
                ~IsInSnap(x) /\ ~IsInDb(x)

\* C4: after a completed full check, a file that was in the snapshot, not in the
\* DB and absent from disk is no longer in the snapshot and still not in the DB.
C4_SnapshotOnlyEntryRemoved == C4For(FileSlots)

C4_PlainReadWrite == updateSnapshot(cfg) => C4For(PlainSlots)

C5For(slots) ==
    Completed =>
        \A x \in slots :
            (WasInDb(x) /\ ~WasInSnap(x) /\ ~WasOnDisk(x)) =>
                ~IsInDb(x) /\ ~IsInSnap(x) /\ ~ReportedLost(x)

\* C5: after a completed full check, a file that was in the DB, not in the
\* snapshot and absent from disk is no longer in the DB, has no snapshot entry
\* and is not reported as lost.
C5_DbOnlyRowDeleted == C5For(FileSlots)

C5_PlainReadWrite == updateSnapshot(cfg) => C5For(PlainSlots)

C6For(slots) ==
    Completed =>
        \A x \in slots : IsInSnap(x) => (IsOnDisk(x) /\ IsInDb(x))

\* C6: after a completed full check, every file that has a snapshot entry exists
\* on disk and has a DB row, whatever the starting combination was.
C6_SnapshotEntriesOnDiskAndInDb == C6For(FileSlots)

C6_PlainReadWrite ==
    (Completed /\ updateSnapshot(cfg)) =>
        \A x \in PlainSlots :
            IsInSnap(x) => (IsInDb(x) /\ (IsOnDisk(x) \/ ReportedLost(x)))

----------------------------------------------------------------------------
(* Cancellation of the full check *)

RECURSIVE SweepFrom(_, _, _, _, _)
\* lines 495-757 run without interruption from disk i on: st holds the DB, the
\* snapshot files, whether the variable tmpSnapshotDbm holds a closed handle, and
\* whether no error has left the loop
SweepFrom(c, f, bad, st, i) ==
    IF ~st.ok \/ i > Len(diskIdMtPtList) THEN st
    ELSE LET diskId == diskIdMtPtList[i]
             exists == st.snap[diskId].exists
         IN  IF exists /\ bad[diskId] THEN [st EXCEPT !.ok = FALSE]
             ELSE IF ~exists /\ ~updateSnapshot(c)
             THEN IF st.tmpClosed THEN [st EXCEPT !.ok = FALSE]
                  ELSE SweepFrom(c, f, bad, st, i + 1)
             ELSE LET data0 == IF exists THEN st.snap[diskId].data ELSE EmptyStore
                      tmp0 == AddRows(EmptyStore, dumpFileInfoList(st.db, diskId))
                      a == PassALoop([tmp |-> tmp0, db |-> st.db, del |-> {},
                                      lost |-> EmptyStore],
                                     c, f, data0, diskId, DOMAIN data0)
                      data1 == DelLoop(data0, a.del)
                      b == PassBLoop([snap |-> data1, db |-> a.db],
                                     c, f, a.tmp, diskId, DOMAIN a.tmp)
                  IN  IF ~updateSnapshot(c) /\ AdminWrites(a.tmp, data1) # {}
                      THEN [st EXCEPT !.ok = FALSE]
                      ELSE SweepFrom(c, f, bad,
                                     [db |-> b.db,
                                      snap |-> [st.snap EXCEPT ![diskId] =
                                                   [exists |-> TRUE, data |-> b.snap]],
                                      tmpClosed |-> DOMAIN a.tmp # {},
                                      ok |-> TRUE],
                                     i + 1)

\* the DB and the snapshots an uninterrupted full check of the state o leaves
SweepResult(c, bad, o) ==
    IF ~c.snapshot THEN [db |-> o.db, snap |-> o.snap, tmpClosed |-> FALSE, ok |-> TRUE]
    ELSE SweepFrom(c, o.fs, bad,
                   [db |-> o.db, snap |-> o.snap, tmpClosed |-> FALSE, ok |-> TRUE], 1)

\* the full check was stopped by the stop event and has ended
Stopped == pc = "done" /\ outcome = "stopped"

\* a full check has completed after the one before it had been stopped
CompletedAfterStop ==
    Completed /\ Len(history) = 1 /\ history[1].outcome = "stopped"

\* the DB, the snapshots and the files before the first full check
Orig == IF history = << >> THEN pre ELSE history[1].pre

\* the first full check, never stopped, leaves what SweepResult computes
C11_ReferenceAgrees ==
    (Completed /\ history = << >>) =>
        LET ref == SweepResult(cfg, corrupt, Orig)
        IN  ref.ok /\ db = ref.db /\ snap = ref.snap

\* a full check that completes after a stopped one leaves the DB and the
\* snapshots an uninterrupted check of the original state leaves
C11_ConvergesAfterCancel ==
    CompletedAfterStop =>
        LET ref == SweepResult(cfg, corrupt, Orig)
        IN  ref.ok => (db = ref.db /\ snap = ref.snap)

\* C11: a full check stopped by the stop event ends with every handle it opened
\* closed, and the full check run after it without interruption leaves the DB and
\* the snapshots that an uninterrupted check of the original state leaves.
C11_CancelledPassRecovers ==
    /\ Stopped => \A i \in DOMAIN handles : handles[i].closes = 1
    /\ C11_ConvergesAfterCancel

C11_ConvergesWitness ==
    /\ CompletedAfterStop
    /\ SweepResult(cfg, corrupt, Orig).ok
    /\ db # Orig.db
    /\ snap # Orig.snap

----------------------------------------------------------------------------
(* A disk without snapshot store on a server that allows no change *)

\* the disk had no snapshot store when the full check started and none can be
\* created
StoreUnavailable(d) ==
    cfg.snapshot /\ ~updateSnapshot(cfg) /\ ~pre.snap[d].exists

\* no store is created for the disk and its DB rows are the ones it had
DiskUntouched(d) ==
    /\ snap[d] = pre.snap[d]
    /\ dumpFileInfoList(db, d) = dumpFileInfoList(pre.db, d)

\* C20: a disk whose snapshot store does not exist, on a server that allows
\* neither archive nor remove requests, raises no error: no store is created, the
\* DB rows and the snapshot of the disk are not changed, and the full check goes
\* on with the next disk.
C20_MissingStoreSkipsDisk ==
    \A d \in Disks :
        StoreUnavailable(d) =>
            /\ DiskUntouched(d)
            /\ (curDisk = d /\ pc # "idle") => exc # "error"

\* as C20, for a disk met before any disk with DB rows has been checked
C20_NoEarlierTmpSnapshot ==
    \A d \in Disks :
        (StoreUnavailable(d) /\ \A i \in DOMAIN handles : handles[i].kind # "tmp") =>
            /\ DiskUntouched(d)
            /\ (curDisk = d /\ pc # "idle") => exc # "error"

----------------------------------------------------------------------------
(* The report of the lost files *)

\* the files the first loop records as lost (lines 586-607): in the DB and in the
\* snapshot of a disk that is checked, absent from disk, the key not taken for an
\* administrative element
RecordedLost ==
    {x \in FileSlots : /\ WasInDb(x) /\ WasInSnap(x) /\ ~WasOnDisk(x)
                       /\ ~IsAdminElement(FileKeyOf(x[2]))}

\* the report holds one line for the file, with its disk, id, version and path
ReportLine(report, x) ==
    LET key == genFileKey(x[1], x[2], Ver1)
    IN  /\ has_key(report, key)
        /\ getDiskId(report[key].row) = x[1]
        /\ getFileId(report[key].row) = x[2]
        /\ getFileVersion(report[key].row) = Ver1
        /\ report[key].tag = Filename(x[2], Ver1)

\* C19: when the full check has gone over all disks, one lost-files notification
\* has been sent if a lost file was recorded and none otherwise; the report holds
\* each lost file once; the lost files DBM is empty afterwards.
C19_OneLostFilesReport ==
    Completed =>
        /\ lostFileRefsDbm = EmptyStore
        /\ IF RecordedLost = {}
           THEN notifs = << >>
           ELSE /\ Len(notifs) = 1
                /\ \A x \in RecordedLost : ReportLine(notifs[1], x)
                /\ Cardinality(DOMAIN notifs[1]) = Cardinality(RecordedLost)

\* two lost files on two disks are reported in one notification
C19_Witness ==
    /\ Completed
    /\ Len(notifs) = 1
    /\ \E x, y \in RecordedLost : x[1] # y[1]

\* no lost file recorded, no notification
C19_WitnessNone ==
    /\ Completed
    /\ RecordedLost = {}
    /\ notifs = << >>
    /\ \E x \in FileSlots : WasInDb(x) /\ WasInSnap(x)

----------------------------------------------------------------------------
(* checkDbChangeCache: the merge of the change-cache files of one disk *)

\* Cache files a merge may find, and merges started in one behaviour.
MaxCacheFiles == 2
MaxMerges == 2

NGAMS_DB_CH_FILE_INSERT == "FILE-INSERT"
NGAMS_DB_CH_FILE_UPDATE == "FILE-UPDATE"
NGAMS_DB_CH_FILE_DELETE == "FILE-DELETE"

SweepVars == << diskIdx, tmpSnapshotDbm, tmp, snapshotDelDbm, lostFileRefsDbm,
                notifs >>

RECURSIVE SortedNames_Descending(_)
\* the names in descending order
SortedNames_Descending(names) ==
    IF names = {} THEN << >>
    ELSE LET m == CHOOSE x \in names : \A y \in names : x >= y
         IN  << m >> \o SortedNames_Descending(names \ {m})

RECURSIVE SortedNames(_)
\* glob.glob(dbCacheFilePat) followed by sort(): the names in ascending order
SortedNames(names) ==
    IF names = {} THEN << >>
    ELSE LET m == CHOOSE x \in names : \A y \in names : x <= y
         IN  << m >> \o SortedNames(names \ {m})

\* the cache file of the given name
CacheFile(files, name) == CHOOSE cf \in files : cf.name = name

\* ngamsFileInfo().setDiskId(..).setFileId(..).setFileVersion(..).genSqlResult():
\* the row of an object of which only the identity is set
IdentityRow(diskId, fileId, fileVer) ==
    [n \in Cols |->
        CASE n = NGAS_FILES_DISK_ID  -> diskId
          [] n = NGAS_FILES_FILE_ID  -> fileId
          [] n = NGAS_FILES_FILE_VER -> fileVer
          [] OTHER -> None]

\* the removal without the has_key test of line 888: del raises for a missing key
ApplyInfo_DelWithoutHasKey(st, operation, fileInfoList) ==
    LET fileKey == GenFileKey(fileInfoList)
        e == encFileInfo(st.snap, fileInfoList)
    IN  IF operation \in {NGAMS_DB_CH_FILE_INSERT, NGAMS_DB_CH_FILE_UPDATE}
        THEN [st EXCEPT !.snap = addInDbm(e.dbm, fileKey, e.dic),
                        !.db = writeFileInfo(st.db, fileInfoList)]
        ELSE IF operation = NGAMS_DB_CH_FILE_DELETE
        THEN IF has_key(e.dbm, fileKey)
             THEN [st EXCEPT !.snap = delInDbm(e.dbm, fileKey),
                             !.db = delFileEntry(st.db, fileInfoList)]
             ELSE [st EXCEPT !.snap = e.dbm, !.raised = TRUE]
        ELSE [st EXCEPT !.snap = e.dbm]

\* lines 879-892: one file info object of a cache file. st holds the contents of
\* the snapshot, the DB and whether an exception was raised.
ApplyInfo(st, operation, fileInfoList) ==
    LET fileKey == GenFileKey(fileInfoList)
        e == encFileInfo(st.snap, fileInfoList)
    IN  IF operation \in {NGAMS_DB_CH_FILE_INSERT, NGAMS_DB_CH_FILE_UPDATE}
        THEN [st EXCEPT !.snap = addInDbm(e.dbm, fileKey, e.dic),
                        !.db = writeFileInfo(st.db, fileInfoList)]
        ELSE IF operation = NGAMS_DB_CH_FILE_DELETE
        THEN [st EXCEPT !.snap = IF has_key(e.dbm, fileKey)
                                 THEN delInDbm(e.dbm, fileKey) ELSE e.dbm,
                        !.db = delFileEntry(st.db, fileInfoList)]
        ELSE [st EXCEPT !.snap = e.dbm]

RECURSIVE ApplyInfos(_, _, _)
\* lines 878-892: the loop over the file info objects of one cache file
ApplyInfos(st, operation, infos) ==
    IF infos = << >> \/ st.raised THEN st
    ELSE ApplyInfos(ApplyInfo(st, operation, Head(infos)), operation, Tail(infos))

\* lines 824-849: nothing is done unless the feature is on and the snapshot may
\* be updated; the snapshot of the disk is opened and the cache files are listed
MergeStart(diskId) ==
    /\ pc = "idle"
    /\ runs < MaxMerges
    /\ runs' = runs + 1
    /\ curDisk' = diskId
    /\ pre' = [db |-> db, snap |-> snap, fs |-> fs]
    /\ prevRun' = [disk |-> curDisk, processed |-> processed]
    /\ processed' = << >>
    /\ cacheIdx' = 1
    /\ IF ~cfg.snapshot \/ ~updateSnapshot(cfg)
       THEN /\ pc' = "done"
            /\ outcome' = "off"
            /\ snapshotDbm' = 0
            /\ tmpCacheFiles' = << >>
            /\ UNCHANGED << snap, handles, exc >>
       ELSE LET r == openDbSnapshot(cfg, snap, handles, corrupt, diskId)
            IN  /\ snap' = r.snap
                /\ handles' = r.handles
                /\ snapshotDbm' = r.dbm
                /\ outcome' = "running"
                /\ IF r.raised
                   THEN /\ exc' = "error"
                        /\ pc' = "mergeFinally"
                        /\ tmpCacheFiles' = << >>
                   ELSE /\ exc' = "none"
                        /\ pc' = "mergeLoop"
                        /\ tmpCacheFiles' =
                              SortedNames({cf.name : cf \in cache[diskId]})
    /\ unsynced' = 0
    /\ UNCHANGED << cfg, stopObserved, RestartVars, JanitorVars, phase, todo,
                    entryCount, sinceStop, stopInLoop, db, fs, corrupt, cache,
                    stopEvt, SweepVars >>

\* line 853 without the test of the size: no cache file is taken for empty
IsEmptyFile_Never(cf) == FALSE

\* line 853: os.lstat(cacheFile)[6] == 0
IsEmptyFile(cf) == cf.kind = "empty"

\* the files of the directory without those of every name
RemoveListed_All(files, names) == {}

\* lines 909-910: rmFile for every name of the list: the files of the directory
\* that are left
RemoveListed(files, names) ==
    {cf \in files : \A i \in DOMAIN names : names[i] # cf.name}

\* lines 851-904: the next cache file of the list. The stop event is checked
\* first; a file of size 0 is removed and skipped; a file that cannot be
\* unpickled raises; otherwise its file info objects are applied.
MergeFile ==
    /\ pc = "mergeLoop"
    /\ cacheIdx <= Len(tmpCacheFiles)
    /\ LET cf == CacheFile(cache[curDisk], tmpCacheFiles[cacheIdx])
           st == ApplyInfos([snap |-> snap[curDisk].data, db |-> db,
                             raised |-> FALSE], cf.operation, cf.infos)
       IN  IF stopEvt
           THEN /\ exc' = "stop"
                /\ pc' = "mergeFinally"
                /\ UNCHANGED << cache, snap, db, processed, cacheIdx, unsynced >>
           ELSE IF IsEmptyFile(cf)
           THEN /\ cache' = [cache EXCEPT ![curDisk] = @ \ {cf}]
                /\ cacheIdx' = cacheIdx + 1
                /\ UNCHANGED << exc, pc, snap, db, processed, unsynced >>
           ELSE IF cf.kind \in {"garbage", "empty"}
           THEN /\ exc' = "error"
                /\ pc' = "mergeFinally"
                /\ UNCHANGED << cache, snap, db, processed, cacheIdx, unsynced >>
           ELSE /\ snap' = [snap EXCEPT ![curDisk].data = st.snap]
                /\ db' = st.db
                /\ processed' = Append(processed, cf)
                /\ cacheIdx' = cacheIdx + 1
                /\ unsynced' = unsynced + Len(cf.infos)
                /\ IF st.raised
                   THEN exc' = "error" /\ pc' = "mergeFinally"
                   ELSE UNCHANGED << exc, pc >>
                /\ UNCHANGED cache
    /\ stopObserved' = (stopObserved \/ exc' = "stop")
    /\ UNCHANGED << cfg, RestartVars, JanitorVars, phase, todo, entryCount,
                    sinceStop, stopInLoop, fs, corrupt, stopEvt, curDisk,
                    snapshotDbm, handles, tmpCacheFiles, outcome, runs, pre,
                    prevRun, SweepVars >>

\* lines 906-919: after the loop the snapshot is synchronised and every listed
\* cache file is removed
MergeRemove ==
    /\ pc = "mergeLoop"
    /\ cacheIdx > Len(tmpCacheFiles)
    /\ unsynced' = 0
    /\ cache' = [cache EXCEPT ![curDisk] = RemoveListed(@, tmpCacheFiles)]
    /\ pc' = "mergeFinally"
    /\ UNCHANGED << cfg, stopObserved, RestartVars, JanitorVars, phase, todo,
                    entryCount, sinceStop, stopInLoop, db, fs, snap, corrupt,
                    stopEvt, curDisk, snapshotDbm,
                    exc, handles, tmpCacheFiles, cacheIdx, outcome, runs, pre,
                    processed, prevRun, SweepVars >>

\* lines 920-922: the finally block, then the return or the exception
MergeFinally ==
    /\ pc = "mergeFinally"
    /\ LET t == Truth(handles, snapshotDbm, snap, tmp)
       IN  /\ handles' = IF t = "true" THEN close(handles, snapshotDbm) ELSE handles
           /\ outcome' = IF t = "raise" \/ exc = "error" THEN "failed"
                         ELSE IF exc = "stop" THEN "stopped"
                         ELSE "completed"
    /\ pc' = "done"
    /\ UNCHANGED << cfg, stopObserved, RestartVars, JanitorVars, LoopVars, db, fs, snap, corrupt, cache, stopEvt, curDisk,
                    snapshotDbm, exc, tmpCacheFiles, cacheIdx, runs, pre,
                    processed, prevRun, SweepVars >>

\* the Janitor Thread goes on after a merge: the next cycle merges again
MergeAgain ==
    /\ pc = "done"
    /\ runs < MaxMerges
    /\ ~stopEvt
    /\ pc' = "idle"
    /\ UNCHANGED << cfg, stopObserved, RestartVars, JanitorVars, LoopVars, db, fs, snap, corrupt, cache, stopEvt, curDisk,
                    snapshotDbm, exc, handles, tmpCacheFiles, cacheIdx, outcome,
                    runs, pre, processed, prevRun, SweepVars >>

----------------------------------------------------------------------------
(* Initial states of the merge *)

\* the files change-cache entries are about
CacheSlots == {<< << "d1" >>, << "f" >> >>, << << "d1" >>, << "u", US, US, US, "x" >> >>}

\* what a cache file may hold: nothing (size 0), an unreadable pickle, the list
\* [diskId, fileId, fileVersion] of a removed file, a file info object tagged
\* with its operation, or a file list with the operation as its comment
CacheContents ==
    {[kind |-> "empty", operation |-> "", infos |-> << >>],
     [kind |-> "garbage", operation |-> "", infos |-> << >>],
     [kind |-> "filelist", operation |-> NGAMS_DB_CH_FILE_INSERT,
      infos |-> << Row(<< "d1" >>, << "f" >>, Ver1, << "c1" >>),
                   Row(<< "d1" >>, << "u", US, US, US, "x" >>, Ver1, << "c1" >>) >>]}
    \cup {[kind |-> "list", operation |-> NGAMS_DB_CH_FILE_DELETE,
           infos |-> << IdentityRow(x[1], x[2], Ver1) >>] : x \in CacheSlots}
    \cup {[kind |-> "fileinfo", operation |-> NGAMS_DB_CH_FILE_INSERT,
           infos |-> << Row(x[1], x[2], Ver1, << "c1" >>) >>] : x \in CacheSlots}
    \cup {[kind |-> "fileinfo", operation |-> NGAMS_DB_CH_FILE_UPDATE,
           infos |-> << Row(x[1], x[2], Ver1, << "c2" >>) >>] : x \in CacheSlots}

\* Before a merge: any combination of DB rows and snapshot entries for the files
\* of CacheSlots, and at most MaxCacheFiles cache files on disk d1.
InitMerge ==
    /\ cfg \in Cfgs
    /\ \E S \in SUBSET CacheSlots :
         /\ Cardinality(S) <= MaxFiles
         /\ \E st \in [S -> {s \in SlotStates : s.onDisk}] :
              InitFiles(S, st, [d \in Disks |-> FALSE])
    /\ corrupt = [d \in Disks |-> FALSE]
    /\ \E n \in 0..MaxCacheFiles :
         \E content \in [1..n -> CacheContents] :
            cache = [d \in Disks |->
                        IF d = << "d1" >>
                        THEN {[name |-> i, kind |-> content[i].kind,
                               operation |-> content[i].operation,
                               infos |-> content[i].infos] : i \in 1..n}
                        ELSE {}]
    /\ jpc = "off"
    /\ suspendTime = 0
    /\ InitLocals

NextMerge ==
    \/ \E d \in Disks : MergeStart(d)
    \/ MergeFile
    \/ MergeRemove
    \/ MergeFinally
    \/ MergeAgain
    \/ SetStop

SpecMerge == InitMerge /\ [][NextMerge]_vars

----------------------------------------------------------------------------
(* Properties of the merge *)

MergeEnded == pc = "done" /\ outcome \in {"completed", "failed", "stopped"}

InsertOrUpdate(cf) ==
    cf.operation \in {NGAMS_DB_CH_FILE_INSERT, NGAMS_DB_CH_FILE_UPDATE}

\* the merge that has ended applied the cache files the merge before it applied
\* to the same disk, all of them inserts or updates
MergedTwice ==
    /\ MergeEnded
    /\ runs >= 2
    /\ prevRun.disk = curDisk
    /\ processed # << >>
    /\ prevRun.processed = processed
    /\ \A i \in DOMAIN processed : InsertOrUpdate(processed[i])

\* C7: when a merge applies again the insert/update cache files that the previous
\* merge of the disk has applied (they were not removed, the previous merge
\* having failed after them), the snapshots and the DB are left as the previous
\* merge left them.
C7_MergeTwiceAsOnce == MergedTwice => (snap = pre.snap /\ db = pre.db)

C7_Witness ==
    /\ MergedTwice
    /\ \E i \in DOMAIN processed :
          LET row == processed[i].infos[1]
          IN  /\ has_key(snap[curDisk].data, GenFileKey(row))
              /\ DbKey(row) \in DOMAIN db

\* the cache file is the removal of a file that was neither in the snapshot of
\* the disk nor in the DB when the merge started
DeleteOfAbsent(cf) ==
    /\ cf.operation = NGAMS_DB_CH_FILE_DELETE
    /\ \A i \in DOMAIN cf.infos :
          /\ ~has_key(pre.snap[curDisk].data, GenFileKey(cf.infos[i]))
          /\ DbKey(cf.infos[i]) \notin DOMAIN pre.db

\* the merge that has ended has applied every cache file it listed, each of them
\* the removal of a file known neither to the snapshot nor to the DB
MergedDeletesOfAbsent ==
    /\ MergeEnded
    /\ processed # << >>
    /\ Len(processed) = Len(tmpCacheFiles)
    /\ \A i \in DOMAIN processed : DeleteOfAbsent(processed[i])

\* C8: a merge of delete cache files for files that are neither in the snapshot
\* nor in the DB ends without error, and the files are still in neither.
C8_DeleteOfAbsentIsHarmless ==
    MergedDeletesOfAbsent =>
        /\ outcome = "completed"
        /\ \A i \in DOMAIN processed :
              LET row == processed[i].infos[1]
              IN  /\ ~has_key(snap[curDisk].data, GenFileKey(row))
                  /\ DbKey(row) \notin DOMAIN db

C8_Witness == MergedDeletesOfAbsent /\ outcome = "completed"

----------------------------------------------------------------------------
(* Properties of the full check over several disks *)

\* the snapshot and the DB as the passes over the one disk leave them, computed
\* from the state the full check started in
ExpectedPass(diskId) ==
    LET data == pre.snap[diskId].data
        a == PassALoop([tmp |-> AddRows(EmptyStore, dumpFileInfoList(pre.db, diskId)),
                        db |-> pre.db, del |-> {}, lost |-> EmptyStore],
                       cfg, pre.fs, data, diskId, DOMAIN data)
        b == PassBLoop([snap |-> DelLoop(data, a.del), db |-> a.db],
                       cfg, pre.fs, a.tmp, diskId, DOMAIN a.tmp)
    IN  [snap |-> b.snap, db |-> b.db]

Reconciled(diskId) ==
    /\ snap[diskId].data = ExpectedPass(diskId).snap
    /\ dumpFileInfoList(db, diskId) = dumpFileInfoList(ExpectedPass(diskId).db, diskId)

\* C9: snapshot opened read-write, no stop requested: when the full check has
\* ended, every disk whose snapshot could be opened has been reconciled, with the
\* outcome of its own passes, also when the snapshot of another disk could not
\* be opened.
C9_OtherDisksStillReconciled ==
    (pc = "done" /\ cfg.snapshot /\ updateSnapshot(cfg) /\ ~stopEvt) =>
        \A d \in Disks : ~corrupt[d] => Reconciled(d)

\* C10: when the full check has ended, in whatever way, every bsddb handle it has
\* opened has been closed exactly once.
C10_HandlesClosedOnce ==
    pc = "done" => \A i \in DOMAIN handles : handles[i].closes = 1

----------------------------------------------------------------------------
(* janitorThread and JanitorCycle: the scheduler of the Janitor Thread *)

\* Calls of JanitorCycle, events the server puts on the queue, and the longest
\* suspension time of the configuration in seconds.
MaxCycles == 2
MaxEvents == 1
MaxSuspendSecs == 3

\* the waits of JanitorCycle, in half seconds
EVENT_SLEEP == 1
SUSPEND_STEP == 2
MERGE_ERROR_SLEEP == 10
CYCLE_ERROR_SLEEP == 4

\* lines 1006-1112: the tasks of a cycle in the order they are called
Tasks ==
    << "Handle_TempDB_SnapShot_Files", "Check_Processing_Directory",
       "Check_Old_RequestsinDBM", "Check_Subscr_Backlog_n_Temp_Dir",
       "checkNotifRetBuf", "CheckUnsavedLogFile", "Log_Rot_Chk",
       "Rotated_Log_FilestoRemove", "Check_Disk_Space",
       "Check_to_Wakeup_OtherNGAS_Host", "Check_to_Suspend_NGAS_Host" >>

\* the tasks that are handed the stop event
TakesStopEvt(i) == Tasks[i] # "checkNotifRetBuf"

\* how a task may end: it returns, it raises an error, or it raises the stop
\* exception after a check of the stop event
TaskResults(i) ==
    {"ok", "error"} \cup (IF stopEvt /\ TakesStopEvt(i) THEN {"stop"} ELSE {})

DataVars == << cfg, db, fs, snap, corrupt >>

OpVars == << diskIdx, curDisk, snapshotDbm, tmpSnapshotDbm, tmp, snapshotDelDbm,
             lostFileRefsDbm, exc, handles, notifs, tmpCacheFiles, cacheIdx,
             outcome, pre, processed, prevRun, history, phase, todo, entryCount,
             unsynced, sinceStop, stopInLoop >>

Min(a, b) == IF a < b THEN a ELSE b

\* the time since the tasks ended, after k more half seconds (not counted beyond
\* the suspension time)
Advance(t, k) == Min(t + k, suspendTime)

\* the truth value of the item taken from the queue (line 1136)
Truthy(item) ==
    \/ item.kind = "count" /\ item.n # 0
    \/ item.kind = "events" /\ item.disks # << >>

\* the Janitor Thread is in the suspension part of JanitorCycle (lines 1132-1153)
Sleeping == jpc \in {"get", "while", "merge", "mergeFail", "suspend"}

\* the handlers of JanitorCycle with every error ending the thread
JanitorCycleExcept_Reraise(e) == "stopped"

\* lines 1155-1163: the stop exception is raised again, any other exception is
\* reported and JanitorCycle returns after a wait
JanitorCycleExcept(e) == IF e = "stop" THEN "stopped" ELSE "failSleep"

\* lines 1194-1202: the stop exception ends janitorThread, any other exception of
\* checkUpdateDbSnapShots is logged and the thread goes on
JanitorThreadExcept(o) == IF o = "stopped" THEN "stopped" ELSE "cycle"

\* the loop over the events going on with the next disk after an exception
NextAfterMerge_GoesOn(o, idx, n) ==
    IF idx < n THEN [jpc |-> "merge", idx |-> idx + 1]
    ELSE [jpc |-> "suspend", idx |-> idx]

\* lines 1138-1152: after updateDbSnapShots for the disk idx of n: the next disk,
\* the end of the loop, or the handler of the exception that leaves the loop
NextAfterMerge(o, idx, n) ==
    IF o \in {"failed", "stopped"} THEN [jpc |-> "mergeFail", idx |-> idx]
    ELSE IF idx < n THEN [jpc |-> "merge", idx |-> idx + 1]
    ELSE [jpc |-> "suspend", idx |-> idx]

\* lines 1193-1195: checkUpdateDbSnapShots is run when the thread starts
StartupStep ==
    /\ jpc = "startup"
    /\ \/ SweepStart
       \/ DiskLoop
       \/ BuildTmp
       \/ PassA
       \/ ApplyDeletions
       \/ PassB
       \/ DiskFinally
       \/ SweepReport
       \/ SweepExit

\* janitorThread without the call of checkUpdateDbSnapShots: the thread goes on
\* to its cycles at once
StartupReturn_BeforeSweep ==
    /\ jpc = "startup"
    /\ pc = "idle"
    /\ jpc' = JanitorThreadExcept(outcome)
    /\ UNCHANGED << DataVars, OpVars, stopObserved, cache, stopEvt, taskIdx, cycles, JanQue,
                    event_info_list, eventIdx, runCount, suspendTime, elapsed,
                    nEvents, arrived, logged, pc, runs >>

\* lines 1196-1204: checkUpdateDbSnapShots has returned or raised
StartupReturn ==
    /\ jpc = "startup"
    /\ pc = "done"
    /\ jpc' = JanitorThreadExcept(outcome)
    /\ logged' = IF outcome = "failed"
                 THEN logged \cup {[by |-> "janitorThread", cause |-> "error"]}
                 ELSE logged
    /\ pc' = "idle"
    /\ runs' = 0
    /\ UNCHANGED << DataVars, OpVars, stopObserved, cache, stopEvt, taskIdx, cycles, JanQue,
                    event_info_list, eventIdx, runCount, suspendTime, elapsed,
                    nEvents, arrived >>

\* lines 1215, 995-996: JanitorCycle is called and checks the stop event first
CycleStart ==
    /\ jpc = "cycle"
    /\ stopEvt \/ cycles < MaxCycles
    /\ IF stopEvt
       THEN /\ jpc' = JanitorCycleExcept("stop")
            /\ UNCHANGED << taskIdx, cycles, arrived >>
       ELSE /\ jpc' = "task"
            /\ taskIdx' = 1
            /\ cycles' = cycles + 1
            /\ arrived' = {}
    /\ stopObserved' = (stopObserved \/ stopEvt)
    /\ UNCHANGED << DataVars, OpVars, pc, runs, cache, stopEvt, JanQue,
                    event_info_list, eventIdx, runCount, suspendTime, elapsed,
                    nEvents, logged >>

\* lines 1006-1112: the next task of the cycle is run; an exception of the task
\* leaves the try block
RunTask ==
    /\ jpc = "task"
    /\ \E r \in TaskResults(taskIdx) :
         IF r = "ok"
         THEN /\ IF taskIdx < Len(Tasks)
                 THEN taskIdx' = taskIdx + 1 /\ UNCHANGED jpc
                 ELSE jpc' = "put" /\ UNCHANGED taskIdx
              /\ UNCHANGED << elapsed, logged >>
         ELSE /\ jpc' = JanitorCycleExcept(r)
              /\ elapsed' = 0
              /\ logged' = IF r = "error"
                           THEN logged \cup {[by |-> "JanitorCycle", cause |-> "error"]}
                           ELSE logged
              /\ UNCHANGED taskIdx
    /\ stopObserved' = (stopObserved \/ jpc' = "stopped")
    /\ UNCHANGED << DataVars, OpVars, pc, runs, cache, stopEvt, cycles, JanQue,
                    event_info_list, eventIdx, runCount, suspendTime, nEvents,
                    arrived >>

\* line 1163: the wait after an error, then JanitorCycle returns
FailSleep ==
    /\ jpc = "failSleep"
    /\ elapsed' = elapsed + CYCLE_ERROR_SLEEP
    /\ jpc' = "cycle"
    /\ UNCHANGED << DataVars, OpVars, stopObserved, pc, runs, cache, stopEvt, taskIdx, cycles,
                    JanQue, event_info_list, eventIdx, runCount, suspendTime,
                    nEvents, arrived, logged >>

\* lines 1126-1132: the run count is incremented and put on the queue, the
\* suspension starts
PutRunCount ==
    /\ jpc = "put"
    /\ runCount' = runCount + 1
    /\ JanQue' = Append(JanQue, CountItem(runCount + 1))
    /\ elapsed' = 0
    /\ arrived' = {}
    /\ jpc' = "get"
    /\ UNCHANGED << DataVars, OpVars, stopObserved, pc, runs, cache, stopEvt, taskIdx, cycles,
                    event_info_list, eventIdx, suspendTime, nEvents, logged >>

\* line 1133: JanQue.get() returns the first item of the queue; it blocks while
\* the queue is empty. The loop over the item has not run yet.
GetItem ==
    /\ jpc = "get"
    /\ JanQue # << >>
    /\ event_info_list' = Head(JanQue)
    /\ JanQue' = Tail(JanQue)
    /\ eventIdx' = 0
    /\ jpc' = "while"
    /\ UNCHANGED << DataVars, OpVars, stopObserved, pc, runs, cache, stopEvt, taskIdx, cycles,
                    runCount, suspendTime, elapsed, nEvents, arrived,
                    logged >>

\* time passes while JanQue.get() blocks
GetBlocked ==
    /\ jpc = "get"
    /\ JanQue = << >>
    /\ elapsed < suspendTime
    /\ elapsed' = Advance(elapsed, SUSPEND_STEP)
    /\ UNCHANGED << DataVars, OpVars, stopObserved, pc, runs, cache, stopEvt, jpc, taskIdx,
                    cycles, JanQue, event_info_list, eventIdx, runCount,
                    suspendTime, nEvents, arrived, logged >>

\* lines 1134-1141: the test of the while loop; when the item taken is true the
\* loop over it is entered after a wait; a run count cannot be iterated over
WhileLoop ==
    /\ jpc = "while"
    /\ IF elapsed >= suspendTime
       THEN /\ jpc' = "cycle"
            /\ UNCHANGED << elapsed, eventIdx, logged >>
       ELSE IF ~Truthy(event_info_list)
       THEN /\ jpc' = "suspend"
            /\ UNCHANGED << elapsed, eventIdx, logged >>
       ELSE /\ elapsed' = Advance(elapsed, EVENT_SLEEP)
            /\ IF event_info_list.kind = "count"
               THEN /\ jpc' = "mergeFail"
                    /\ logged' = logged \cup
                                    {[by |-> "eventLoop", cause |-> "error"]}
                    /\ UNCHANGED eventIdx
               ELSE /\ jpc' = "merge"
                    /\ eventIdx' = 1
                    /\ UNCHANGED logged
    /\ UNCHANGED << DataVars, OpVars, stopObserved, pc, runs, cache, stopEvt, taskIdx, cycles,
                    JanQue, event_info_list, runCount, suspendTime, nEvents,
                    arrived >>

\* lines 1142, 942-952: updateDbSnapShots calls checkDbChangeCache for the disk
\* of the event
MergeStep ==
    /\ jpc = "merge"
    /\ \/ MergeStart(event_info_list.disks[eventIdx])
       \/ MergeFile
       \/ MergeRemove
       \/ MergeFinally

\* lines 953-958, 1143-1151: checkDbChangeCache has returned or raised; every
\* exception, the stop exception too, is logged as an error by updateDbSnapShots
\* and raised anew as an Exception, which the handler of the loop logs
MergeReturn ==
    /\ jpc = "merge"
    /\ pc = "done"
    /\ LET nx == NextAfterMerge(outcome, eventIdx, Len(event_info_list.disks))
       IN  jpc' = nx.jpc /\ eventIdx' = nx.idx
    /\ logged' = IF outcome \in {"failed", "stopped"}
                 THEN logged \cup
                        {[by |-> "updateDbSnapShots",
                          cause |-> IF outcome = "stopped" THEN "stop" ELSE "error"],
                         [by |-> "eventLoop", cause |-> "error"]}
                 ELSE logged
    /\ pc' = "idle"
    /\ runs' = 0
    /\ UNCHANGED << DataVars, OpVars, stopObserved, cache, stopEvt, taskIdx, cycles, JanQue,
                    event_info_list, runCount, suspendTime, elapsed, nEvents,
                    arrived >>

\* line 1152: the wait after an exception of the loop over the events
MergeFailSleep ==
    /\ jpc = "mergeFail"
    /\ elapsed' = Advance(elapsed, MERGE_ERROR_SLEEP)
    /\ jpc' = "suspend"
    /\ UNCHANGED << DataVars, OpVars, stopObserved, pc, runs, cache, stopEvt, taskIdx, cycles,
                    JanQue, event_info_list, eventIdx, runCount, suspendTime,
                    nEvents, arrived, logged >>

\* lines 1153, 79-86: suspend(stopEvt, 1.0) waits for the stop event for a second
Suspend ==
    /\ jpc = "suspend"
    /\ IF stopEvt
       THEN jpc' = JanitorCycleExcept("stop") /\ UNCHANGED elapsed
       ELSE jpc' = "while" /\ elapsed' = Advance(elapsed, SUSPEND_STEP)
    /\ stopObserved' = (stopObserved \/ stopEvt)
    /\ UNCHANGED << DataVars, OpVars, pc, runs, cache, stopEvt, taskIdx, cycles,
                    JanQue, event_info_list, eventIdx, runCount, suspendTime,
                    nEvents, arrived, logged >>

\* the steps of the Janitor Thread itself
JanitorStep ==
    \/ StartupStep
    \/ StartupReturn
    \/ CycleStart
    \/ RunTask
    \/ FailSleep
    \/ PutRunCount
    \/ GetItem
    \/ WhileLoop
    \/ MergeStep
    \/ MergeReturn
    \/ MergeFailSleep
    \/ Suspend

\* the server sets the stop event
StopServer ==
    /\ ~stopEvt
    /\ jpc # "stopped"
    /\ stopEvt' = TRUE
    /\ UNCHANGED << DataVars, OpVars, stopObserved, pc, runs, cache, JanitorVars >>

\* the lists of disks an event may name
EventLists == {<< d >> : d \in Disks} \cup {diskIdMtPtList}

\* a request has changed files of the disks ds: a change-cache file is written
\* for each disk and the event is put on the queue
ServerEvent(ds) ==
    /\ jpc # "stopped"
    /\ nEvents < MaxEvents
    /\ cfg.snapshot /\ updateSnapshot(cfg)
    /\ nEvents' = nEvents + 1
    /\ cache' = [d \in Disks |->
                    IF \E i \in DOMAIN ds : ds[i] = d
                    THEN cache[d] \cup
                            {[name |-> nEvents + 1, kind |-> "fileinfo",
                              operation |-> NGAMS_DB_CH_FILE_INSERT,
                              infos |-> << Row(d, << "f" >>, Ver1, << "c1" >>) >>]}
                    ELSE cache[d]]
    /\ JanQue' = Append(JanQue, EventItem(ds))
    /\ arrived' = IF Sleeping /\ elapsed = 0 /\ suspendTime > SUSPEND_STEP
                  THEN arrived \cup {ds[i] : i \in DOMAIN ds}
                  ELSE arrived
    /\ UNCHANGED << DataVars, OpVars, stopObserved, pc, runs, stopEvt, jpc, taskIdx, cycles,
                    event_info_list, eventIdx, runCount, suspendTime, elapsed,
                    logged >>

\* the server takes the run count from the queue
ServerGet ==
    /\ JanQue # << >>
    /\ Head(JanQue).kind = "count"
    /\ JanQue' = Tail(JanQue)
    /\ UNCHANGED << DataVars, OpVars, stopObserved, pc, runs, cache, stopEvt, jpc, taskIdx,
                    cycles, event_info_list, eventIdx, runCount, suspendTime,
                    elapsed, nEvents, arrived, logged >>

\* The thread starts on a server without files: the snapshot of a disk may exist
\* (one of them may be unreadable), the queue is empty.
InitJanitor ==
    /\ cfg \in Cfgs
    /\ \E ex \in [Disks -> BOOLEAN] : InitFiles({}, << >>, ex)
    /\ corrupt \in {c \in [Disks -> BOOLEAN] :
                      /\ \A d \in Disks : c[d] => snap[d].exists
                      /\ Cardinality({d \in Disks : c[d]}) <= 1}
    /\ cache = [d \in Disks |-> {}]
    /\ jpc = "startup"
    /\ suspendTime \in {SUSPEND_STEP, SUSPEND_STEP * MaxSuspendSecs}
    /\ InitLocals

NextJanitor ==
    \/ JanitorStep
    \/ GetBlocked
    \/ StopServer
    \/ \E ds \in EventLists : ServerEvent(ds)
    \/ ServerGet

SpecJanitor == InitJanitor /\ [][NextJanitor]_vars

\* the Janitor Thread takes its next step when it can
SpecJanitorFair == SpecJanitor /\ WF_vars(JanitorStep)

----------------------------------------------------------------------------
(* The tasks of a cycle after a task has failed *)

\* C12: when a task of a cycle raises an error, every task that follows it in
\* the order of the cycle is still run in that cycle: the cycle comes to its
\* error handler only with the last task.
C12_LaterTasksStillRun ==
    jpc = "failSleep" => taskIdx = Len(Tasks)

\* the part of C12 that holds: the error of the task is logged
C12_TaskErrorLogged ==
    jpc = "failSleep" => [by |-> "JanitorCycle", cause |-> "error"] \in logged

----------------------------------------------------------------------------
(* The stop event ends the thread *)

C13_StoppedUnlessBlockedInGet ==
    stopEvt ~> (jpc = "stopped" \/ (jpc = "get" /\ JanQue = << >>))

----------------------------------------------------------------------------
(* The thread ends only by the stop event *)

\* C14: the Janitor Thread has ended (janitorThread has returned) only if the
\* stop event is set: no failure of the check at start-up, of a task or of a
\* merge during the suspension ends it.
C14_StoppedOnlyByStopEvent ==
    jpc = "stopped" => stopEvt

\* the check at start-up, a task and a merge have failed, and the thread has
\* come back to call JanitorCycle again
C14_Witness ==
    /\ jpc = "cycle"
    /\ ~stopEvt
    /\ cycles = MaxCycles
    /\ {[by |-> "janitorThread", cause |-> "error"],
        [by |-> "JanitorCycle", cause |-> "error"],
        [by |-> "updateDbSnapShots", cause |-> "error"]} \subseteq logged

\* the thread has ended after the stop event was set
C14_WitnessStopped ==
    jpc = "stopped" /\ stopEvt /\ cycles > 0

----------------------------------------------------------------------------
(* No work after the stop has been observed *)

\* a task of the cycle is run in the step
TaskRuns == jpc = "task" /\ (jpc' # jpc \/ taskIdx' # taskIdx)

\* a full check or a merge is begun in the step
OperationBegins == pc = "idle" /\ pc' # "idle"

\* C15: once a check of the stop event has raised the stop, the Janitor Thread
\* runs no further task, begins no further check or merge, writes neither the
\* DB nor a snapshot, and consumes no change-cache file.
C15_NoWorkAfterStopObserved ==
    [][stopObserved =>
          /\ ~TaskRuns
          /\ ~OperationBegins
          /\ cycles' = cycles
          /\ db' = db
          /\ snap' = snap
          /\ tmp' = tmp
          /\ \A d \in Disks : cache[d] \subseteq cache'[d]]_vars

\* the stop was observed inside a merge during the suspension, and the thread
\* has ended
C15_Witness ==
    /\ jpc = "stopped"
    /\ stopObserved
    /\ [by |-> "updateDbSnapShots", cause |-> "stop"] \in logged

----------------------------------------------------------------------------
(* The stop exception on its way to janitorThread *)

\* C16: a stop raised inside a task or inside the merge of a change cache is
\* never caught as, converted into or logged as an error.
C16_StopNeverLoggedAsError ==
    \A e \in logged : e.cause # "stop"

\* the part of C16 that holds: a stop raised by a task ends the thread at once
C16_TaskStopEndsThread ==
    [][(jpc = "task" /\ stopObserved' /\ ~stopObserved) => jpc' = "stopped"]_vars

----------------------------------------------------------------------------
(* The time between two cycles *)

\* C17: a cycle after the first is begun only when the suspension time has
\* passed in full since the tasks of the cycle before ended.
C17_NextCycleAfterSuspension ==
    (jpc = "task" /\ cycles > 1) => elapsed >= suspendTime

\* the part of C17 that holds: unless a task has failed, the next cycle is not
\* begun before the suspension time has passed, whatever events arrive
C17_EventsDoNotShorten ==
    (jpc = "task" /\ cycles > 1
        /\ [by |-> "JanitorCycle", cause |-> "error"] \notin logged)
    => elapsed >= suspendTime

----------------------------------------------------------------------------
(* Events that arrive during the suspension *)

\* an event that names disk d waits on the queue
Queued(d) ==
    \E i \in DOMAIN JanQue :
        JanQue[i].kind = "events"
            /\ \E k \in DOMAIN JanQue[i].disks : JanQue[i].disks[k] = d

\* C18: when the suspension of a cycle ends, every event put on the queue early
\* in that suspension has been taken from the queue and the change cache of each
\* disk it names has been merged (for the disks whose snapshot can be opened,
\* the stop event not being set).
C18_EventsMergedBeforeSleepEnds ==
    (jpc = "cycle" /\ ~stopEvt)
    => \A d \in arrived :
          (snap[d].exists /\ ~corrupt[d]) => (~Queued(d) /\ cache[d] = {})

\* the part of C18 that holds: an event taken from the queue is merged without
\* a full check being run
C18_NoFullCheckDuringSuspension ==
    [][Sleeping => pc' \notin {"loop", "build", "passA", "passB", "report"}]_vars

----------------------------------------------------------------------------
(* The merge when the snapshot is not to be updated *)

\* the snapshot feature is off, or neither archive nor remove requests are allowed
MergeSwitchedOff == ~cfg.snapshot \/ (~cfg.allowArchive /\ ~cfg.allowRemove)

\* C21: when the snapshot feature is off, or neither archive nor remove requests
\* are allowed, no step of checkDbChangeCache changes a snapshot, the DB or the
\* change-cache files of a disk.
C21_MergeOffIsNoOp ==
    [][MergeSwitchedOff => (snap' = snap /\ db' = db /\ cache' = cache)]_vars

\* a merge has returned at once although the disk holds a cache file with an
\* insert for a file the snapshot lacks
C21_Witness ==
    /\ MergeSwitchedOff
    /\ pc = "done"
    /\ outcome = "off"
    /\ runs >= 1
    /\ \E cf \in cache[curDisk] :
          /\ cf.operation = NGAMS_DB_CH_FILE_INSERT
          /\ ~has_key(snap[curDisk].data, GenFileKey(cf.infos[1]))

----------------------------------------------------------------------------
(* The loops of the pass over a disk, entry by entry *)

\* lines 634, 733: every count % 100 == 0 the snapshot is synchronised and the
\* stop event is checked
SYNC_PERIOD == 100

\* the entries of a small store, and of a store longer than two periods
MaxSmall == 2
MaxEntries == 2 * SYNC_PERIOD + 1

\* the next entry the iteration over a hash file gives (one order out of those
\* the hash file may have)
NextKey(keys) == CHOOSE k \in keys : TRUE

\* lines 583-632: the entry of the first loop reaches count += 1, that is, it is
\* not left by continue because it cannot be decoded
CountedA(snapData, key) ==
    IsAdminElement(key) \/ encFileInfo2Obj(snapData, snapData[key]).ok

\* lines 597, 614: os.path.exists is called for the entry of the first loop
ChecksFileA(snapData, key) ==
    ~IsAdminElement(key) /\ encFileInfo2Obj(snapData, snapData[key]).ok

\* lines 699-731: the entry of the second loop reaches count += 1
CountedB(snapData, tmpData, key) ==
    \/ IsAdminElement(key)
    \/ has_key(snapData, key)
    \/ encFileInfo2Obj(tmpData, tmpData[key]).ok

\* line 716: os.path.exists is called for the entry of the second loop
ChecksFileB(snapData, tmpData, key) ==
    /\ ~IsAdminElement(key)
    /\ ~has_key(snapData, key)
    /\ encFileInfo2Obj(tmpData, tmpData[key]).ok

\* lines 704, 719, 728: the entry of the second loop assigns to snapshotDbm[key]
WritesB(c, f, snapData, tmpData, diskId, key) ==
    IF IsAdminElement(key) THEN ~has_key(snapData, key)
    ELSE IF has_key(snapData, key) THEN updateSnapshot(c)
    ELSE LET o == encFileInfo2Obj(tmpData, tmpData[key])
         IN  o.ok /\ pathExists(f, diskId, getFilename(o.row)) /\ updateSnapshot(c)

\* lines 557-566: count = 0, the iteration over the snapshot starts
PassABegin ==
    /\ pc = "passA"
    /\ phase = "none"
    /\ phase' = "A"
    /\ todo' = DOMAIN snap[curDisk].data
    /\ entryCount' = 0
    /\ UNCHANGED << cfg, stopObserved, stopInLoop, RestartVars, JanitorVars, db, fs, snap,
                    corrupt, stopEvt, pc, diskIdx, curDisk, snapshotDbm,
                    tmpSnapshotDbm, tmp, snapshotDelDbm, lostFileRefsDbm, exc,
                    handles, notifs, outcome, pre, runs, MergeVars, unsynced,
                    sinceStop >>

\* lines 583-640: one entry of the loop over the snapshot, then the count and,
\* every SYNC_PERIOD counted entries, the sync and the check of the stop event
PassAIter ==
    /\ pc = "passA"
    /\ phase = "A"
    /\ todo # {}
    /\ LET key == NextKey(todo)
           data == snap[curDisk].data
           st == PassAEntry([tmp |-> tmp, db |-> db, del |-> snapshotDelDbm,
                             lost |-> lostFileRefsDbm],
                            cfg, fs, data, curDisk, key)
           counted == CountedA(data, key)
           c2 == IF counted THEN entryCount + 1 ELSE entryCount
           check == counted /\ c2 % SYNC_PERIOD = 0
       IN  /\ tmp' = st.tmp
           /\ db' = st.db
           /\ snapshotDelDbm' = st.del
           /\ lostFileRefsDbm' = st.lost
           /\ todo' = todo \ {key}
           /\ entryCount' = c2
           /\ unsynced' = IF check /\ updateSnapshot(cfg) THEN 0 ELSE unsynced
           /\ IF check /\ stopEvt
              THEN exc' = "stop" /\ pc' = "finally" /\ phase' = "none"
              ELSE UNCHANGED << exc, pc, phase >>
    /\ sinceStop' = IF stopEvt THEN sinceStop + 1 ELSE sinceStop
    /\ stopObserved' = (stopObserved \/ exc' = "stop")
    /\ UNCHANGED << cfg, stopInLoop, RestartVars, JanitorVars, fs, snap, corrupt, stopEvt,
                    diskIdx, curDisk, snapshotDbm, tmpSnapshotDbm, handles,
                    notifs, outcome, pre, runs, MergeVars >>

\* lines 656-660: the loop over the snapshot has ended, the loop over the
\* deletion DBM starts
PassAEnd ==
    /\ pc = "passA"
    /\ phase = "A"
    /\ todo = {}
    /\ pc' = "del"
    /\ phase' = "del"
    /\ todo' = snapshotDelDbm
    /\ UNCHANGED << cfg, stopObserved, stopInLoop, RestartVars, JanitorVars, db, fs, snap,
                    corrupt, stopEvt, diskIdx, curDisk, snapshotDbm,
                    tmpSnapshotDbm, tmp, snapshotDelDbm, lostFileRefsDbm, exc,
                    handles, notifs, outcome, pre, runs, MergeVars, entryCount,
                    unsynced, sinceStop >>

\* lines 661-669: one key of the deletion DBM: skipped when it holds "__",
\* otherwise removed from the snapshot
DelIter ==
    /\ pc = "del"
    /\ phase = "del"
    /\ todo # {}
    /\ LET key == NextKey(todo)
       IN  /\ todo' = todo \ {key}
           /\ IF SkippedByDeletion(key)
              THEN UNCHANGED << snap, unsynced >>
              ELSE /\ snap' = [snap EXCEPT ![curDisk].data = delInDbm(@, key)]
                   /\ unsynced' = unsynced + 1
    /\ UNCHANGED << cfg, stopObserved, stopInLoop, RestartVars, JanitorVars, db, fs, corrupt,
                    stopEvt, pc, diskIdx, curDisk, snapshotDbm, tmpSnapshotDbm,
                    tmp, snapshotDelDbm, lostFileRefsDbm, exc, handles, notifs,
                    outcome, pre, runs, MergeVars, phase, entryCount, sinceStop >>

\* lines 671-690: the deletion DBM is dropped, the snapshot is synchronised when
\* it may be updated, count = 0 and the iteration over the temporary snapshot
\* starts
DelEnd ==
    /\ pc = "del"
    /\ phase = "del"
    /\ todo = {}
    /\ snapshotDelDbm' = {}
    /\ unsynced' = IF updateSnapshot(cfg) THEN 0 ELSE unsynced
    /\ pc' = "passB"
    /\ phase' = "B"
    /\ todo' = DOMAIN tmp
    /\ entryCount' = 0
    /\ UNCHANGED << cfg, stopObserved, stopInLoop, RestartVars, JanitorVars, db, fs, snap,
                    corrupt, stopEvt, diskIdx, curDisk, snapshotDbm,
                    tmpSnapshotDbm, tmp, lostFileRefsDbm, exc, handles, notifs,
                    outcome, pre, runs, MergeVars, sinceStop >>

\* lines 697-738: one entry of the loop over the temporary snapshot, then the
\* count and, every SYNC_PERIOD counted entries, the sync and the check of the
\* stop event. An assignment to a snapshot opened read-only raises.
PassBIter ==
    /\ pc = "passB"
    /\ phase = "B"
    /\ todo # {}
    /\ LET key == NextKey(todo)
           data == snap[curDisk].data
           writes == WritesB(cfg, fs, data, tmp, curDisk, key)
           st == PassBEntry([snap |-> data, db |-> db], cfg, fs, tmp, curDisk, key)
           counted == CountedB(data, tmp, key)
           c2 == IF counted THEN entryCount + 1 ELSE entryCount
           check == counted /\ c2 % SYNC_PERIOD = 0
       IN  IF writes /\ handles[snapshotDbm].mode = "r"
           THEN /\ exc' = "error"
                /\ pc' = "finally"
                /\ phase' = "none"
                /\ todo' = todo \ {key}
                /\ UNCHANGED << snap, db, entryCount, unsynced >>
           ELSE /\ snap' = [snap EXCEPT ![curDisk].data = st.snap]
                /\ db' = st.db
                /\ todo' = todo \ {key}
                /\ entryCount' = c2
                /\ unsynced' = IF check /\ updateSnapshot(cfg) THEN 0
                               ELSE IF writes THEN unsynced + 1
                               ELSE unsynced
                /\ IF check /\ stopEvt
                   THEN exc' = "stop" /\ pc' = "finally" /\ phase' = "none"
                   ELSE UNCHANGED << exc, pc, phase >>
    /\ sinceStop' = IF stopEvt THEN sinceStop + 1 ELSE sinceStop
    /\ stopObserved' = (stopObserved \/ exc' = "stop")
    /\ UNCHANGED << cfg, stopInLoop, RestartVars, JanitorVars, fs, corrupt, stopEvt, diskIdx,
                    curDisk, snapshotDbm, tmpSnapshotDbm, tmp, snapshotDelDbm,
                    lostFileRefsDbm, handles, notifs, outcome, pre, runs,
                    MergeVars >>

\* lines 746-750: the loop over the temporary snapshot has ended, the snapshot is
\* synchronised when it may be updated
PassBEnd ==
    /\ pc = "passB"
    /\ phase = "B"
    /\ todo = {}
    /\ unsynced' = IF updateSnapshot(cfg) THEN 0 ELSE unsynced
    /\ pc' = "finally"
    /\ phase' = "none"
    /\ UNCHANGED << cfg, stopObserved, stopInLoop, RestartVars, JanitorVars, db, fs, snap,
                    corrupt, stopEvt, diskIdx, curDisk, snapshotDbm,
                    tmpSnapshotDbm, tmp, snapshotDelDbm, lostFileRefsDbm, exc,
                    handles, notifs, outcome, pre, runs, MergeVars, todo,
                    entryCount, sinceStop >>

\* the configurations with the snapshot feature on: archive and remove requests
\* both allowed, or neither
PassCfgs == {c \in Cfgs : c.snapshot /\ c.allowArchive = c.allowRemove}

\* the files of disk d1 before a pass: n versions of one file id, all of them in
\* the DB or not, in the snapshot or not, on disk or not; bad: which entries of
\* the snapshot refer to a column ID the snapshot has no name for
Profiles ==
    {p \in [n : (1..MaxSmall) \cup {MaxEntries},
            fileId : {<< "f" >>, << "g", US, US, "h" >>},
            inDb : BOOLEAN, inSnap : BOOLEAN, onDisk : BOOLEAN,
            bad : {"none", "one", "all"}] :
        /\ p.inDb \/ p.inSnap
        /\ ~p.inSnap => p.bad = "none"
        /\ p.n > MaxSmall =>
              /\ p.fileId = << "f" >>
              /\ p.inSnap
              /\ ~p.inDb
              /\ ~p.onDisk
              /\ p.bad # "one"}

ProfileRows(p) ==
    {Row(<< "d1" >>, p.fileId, << Str(v) >>, << "c1" >>) : v \in 1..p.n}

\* the snapshot of the profile: the rows encoded and added (the names of the
\* columns get their IDs with the first row, every further row adds its entry
\* only); then, for "one", the entry of version 1 refers to a column ID that was
\* never allocated, for "all", the name of column ID 0 is missing
ProfileSnapshot(p) ==
    LET rows == ProfileRows(p)
        first == Row(<< "d1" >>, p.fileId, << Str(1) >>, << "c1" >>)
        base == AddRows(EmptyStore, {first})
        store == [k \in (DOMAIN base) \cup {GenFileKey(r) : r \in rows} |->
                     IF k \in DOMAIN base THEN base[k]
                     ELSE encFileInfo(base, CHOOSE r \in rows : GenFileKey(r) = k).dic]
        k1 == GenFileKey(first)
    IN  IF ~p.inSnap THEN EmptyStore
        ELSE IF p.bad = "one"
        THEN addInDbm(store, k1, addInDbm(store[k1], Len(NgasFilesMap), None))
        ELSE IF p.bad = "all"
        THEN delInDbm(store, NGAMS_SN_SH_ID2NM_TAG \o << Str(0) >>)
        ELSE store

\* the snapshot of a profile is the store the encoding of its rows gives
ProfileSnapshotIsEncoded ==
    \A p \in {q \in Profiles : q.n <= MaxSmall /\ q.inSnap /\ q.bad = "none"} :
        ProfileSnapshot(p) = AddRows(EmptyStore, ProfileRows(p))

InitPass ==
    /\ cfg \in PassCfgs
    /\ \E p \in Profiles :
         /\ db = [k \in {DbKey(r) : r \in IF p.inDb THEN ProfileRows(p) ELSE {}} |->
                     Row(k[1], k[2], k[3], << "c1" >>)]
         /\ fs = [d \in Disks |->
                     IF d = << "d1" >> /\ p.onDisk
                     THEN {r[NGAS_FILES_FILE_NAME] : r \in ProfileRows(p)}
                     ELSE {}]
         /\ snap = [d \in Disks |->
                     IF d = << "d1" >>
                     THEN [exists |-> TRUE, data |-> ProfileSnapshot(p)]
                     ELSE [exists |-> FALSE, data |-> EmptyStore]]
    /\ corrupt = [d \in Disks |-> FALSE]
    /\ cache = [d \in Disks |-> {}]
    /\ jpc = "off"
    /\ suspendTime = 0
    /\ InitLocals

NextPass ==
    \/ SweepStart
    \/ DiskLoop
    \/ BuildTmp
    \/ PassABegin
    \/ PassAIter
    \/ PassAEnd
    \/ DelIter
    \/ DelEnd
    \/ PassBIter
    \/ PassBEnd
    \/ DiskFinally
    \/ SweepReport
    \/ SweepExit
    \/ SetStop

SpecPass == InitPass /\ [][NextPass]_vars

\* the loops taken entry by entry leave what PassALoop, DelLoop and PassBLoop
\* compute for the disk (stores of the small profiles)
EntryWiseAgrees ==
    (Completed /\ \A d \in Disks : Cardinality(DOMAIN pre.snap[d].data) <= 20) =>
        \A d \in Disks : (pre.snap[d].exists \/ updateSnapshot(cfg)) => Reconciled(d)

----------------------------------------------------------------------------
(* The deletions between the two loops *)

\* the step removes an entry from the snapshot of a disk
RemovesEntry ==
    \E d \in Disks : ~(DOMAIN snap[d].data \subseteq DOMAIN snap'[d].data)

\* the step ends the loop over the deletion DBM and begins the loop over the
\* temporary snapshot
BeginsPassB == phase = "del" /\ phase' = "B"

\* C22: within the pass over a disk no entry is removed from the snapshot while
\* the loop over the snapshot (Pass A) is in progress, entries are removed only
\* in the loop over the deletion DBM that follows it, and when the loop over the
\* temporary snapshot (Pass B) begins every key of the deletion DBM has been
\* removed from the snapshot.
C22_DeletionsAppliedBetweenPasses ==
    [][/\ RemovesEntry => phase = "del"
       /\ BeginsPassB =>
             \A key \in snapshotDelDbm : ~has_key(snap'[curDisk].data, key)]_vars

\* no entry is removed from the snapshot outside the loop over the deletion DBM,
\* and that loop runs between the two others
C22_RemovalOnlyInDeletionLoop ==
    [][/\ RemovesEntry => (phase = "del" /\ pc = "del")
       /\ (phase = "A" /\ phase' # "A") => (phase' = "del" \/ exc' = "stop")
       /\ phase' = "B" => (phase = "del" \/ phase = "B")]_vars

\* when Pass B begins, every key of the deletion DBM without "__" in it has been
\* removed from the snapshot
C22_PlainKeysDeletedBeforePassB ==
    [][BeginsPassB =>
          \A key \in snapshotDelDbm :
              ~SkippedByDeletion(key) => ~has_key(snap'[curDisk].data, key)]_vars

\* Pass B has begun after deletions were applied
C22_Witness ==
    /\ phase = "B"
    /\ \E key \in DOMAIN pre.snap[curDisk].data :
          ~IsAdminElement(key) /\ ~has_key(snap[curDisk].data, key)

----------------------------------------------------------------------------
(* The refresh of the snapshot entries in Pass B *)

\* the snapshot of the disk holds the row under its key: the stored dictionary
\* decodes to the row
SnapshotHolds(diskId, row) ==
    LET data == snap[diskId].data
        o == encFileInfo2Obj(data, data[GenFileKey(row)])
    IN  o.ok /\ o.row = row

\* the snapshot held another value than the row under its key before the check
HeldOtherValue(diskId, row) ==
    LET data == pre.snap[diskId].data
    IN  /\ has_key(data, GenFileKey(row))
        /\ encFileInfo2Obj(data, data[GenFileKey(row)]).row # row

\* C23: snapshot opened read-write: after a completed full check, for every row
\* of the DB dump of a disk whose key is in the snapshot of the disk, the value
\* the snapshot holds is that row, also when the snapshot held an older value of
\* the row before.
C23_SnapshotValueIsDbRecord ==
    (Completed /\ updateSnapshot(cfg)) =>
        \A d \in Disks : \A row \in dumpFileInfoList(pre.db, d) :
            has_key(snap[d].data, GenFileKey(row)) => SnapshotHolds(d, row)

\* the same for the rows whose key does not hold "___"
C23_PlainKeysRefreshed ==
    (Completed /\ updateSnapshot(cfg)) =>
        \A d \in Disks : \A row \in dumpFileInfoList(pre.db, d) :
            (has_key(snap[d].data, GenFileKey(row)) /\ ~IsAdminElement(GenFileKey(row)))
                => SnapshotHolds(d, row)

\* an older value of a row with a plain key has been replaced
C23_Witness ==
    /\ Completed /\ updateSnapshot(cfg)
    /\ \E d \in Disks : \E row \in dumpFileInfoList(pre.db, d) :
          /\ ~IsAdminElement(GenFileKey(row))
          /\ HeldOtherValue(d, row)
          /\ SnapshotHolds(d, row)

----------------------------------------------------------------------------
(* The order of the cache files in a merge *)

\* the cache file has an entry for the key
NamesKey(cf, key) == \E j \in DOMAIN cf.infos : GenFileKey(cf.infos[j]) = key

\* the cache files the merge has applied
Applied == {processed[i] : i \in DOMAIN processed}

\* the last entry for the key in the order of the file names (and, within a
\* file, of its list): its operation and its row
LastEntry(key) ==
    LET cf == CHOOSE x \in Applied :
                 /\ NamesKey(x, key)
                 /\ \A y \in Applied : NamesKey(y, key) => y.name <= x.name
        j == CHOOSE a \in DOMAIN cf.infos :
                 /\ GenFileKey(cf.infos[a]) = key
                 /\ \A b \in DOMAIN cf.infos :
                       GenFileKey(cf.infos[b]) = key => b <= a
    IN  [operation |-> cf.operation, row |-> cf.infos[j]]

\* the keys the applied cache files have entries for
AppliedKeys ==
    UNION {{GenFileKey(cf.infos[j]) : j \in DOMAIN cf.infos} : cf \in Applied}

\* C24: a merge applies the cache files of the disk in ascending order of their
\* names; after a completed merge, every key the cache files have an entry for is
\* in the snapshot and in the DB with the row of the last entry for it when that
\* entry is an insert or an update, and in neither when it is a delete.
C24_LastEntryInNameOrderWins ==
    /\ \A i, j \in DOMAIN processed : i < j => processed[i].name < processed[j].name
    /\ (pc = "done" /\ outcome = "completed") =>
          \A key \in AppliedKeys :
             LET last == LastEntry(key)
             IN  IF last.operation = NGAMS_DB_CH_FILE_DELETE
                 THEN /\ ~has_key(snap[curDisk].data, key)
                      /\ DbKey(last.row) \notin DOMAIN db
                 ELSE /\ has_key(snap[curDisk].data, key)
                      /\ SnapshotHolds(curDisk, last.row)
                      /\ DbKey(last.row) \in DOMAIN db
                      /\ db[DbKey(last.row)] = last.row

\* a completed merge of two cache files with entries for the same key, the
\* later one undoing the earlier
C24_Witness ==
    /\ pc = "done" /\ outcome = "completed"
    /\ Len(processed) = 2
    /\ \E key \in AppliedKeys :
          /\ NamesKey(processed[1], key) /\ NamesKey(processed[2], key)
          /\ processed[1].operation = NGAMS_DB_CH_FILE_DELETE
          /\ processed[2].operation = NGAMS_DB_CH_FILE_INSERT
          /\ has_key(snap[curDisk].data, key)

----------------------------------------------------------------------------
(* The merge while requests write new cache files *)

\* the greatest name of a cache file the disk has or the merge has listed
MaxName(diskId) ==
    LET names == {cf.name : cf \in cache[diskId]}
                 \cup {tmpCacheFiles[i] : i \in DOMAIN tmpCacheFiles}
                 \cup {0}
    IN  CHOOSE n \in names : \A m \in names : m <= n

\* a request has changed a file of the disk: a cache file is written whose name
\* follows every earlier name
WriteCacheFile(diskId) ==
    /\ MaxName(diskId) < MaxCacheFiles + 1
    /\ cache' = [cache EXCEPT ![diskId] = @ \cup
                    {[name |-> MaxName(diskId) + 1, kind |-> "fileinfo",
                      operation |-> NGAMS_DB_CH_FILE_INSERT,
                      infos |-> << Row(diskId, << "f" >>, Ver1, << "c1" >>) >>]}]
    /\ UNCHANGED << cfg, db, fs, snap, corrupt, stopEvt, pc, diskIdx, curDisk,
                    snapshotDbm, tmpSnapshotDbm, tmp, snapshotDelDbm,
                    lostFileRefsDbm, exc, handles, notifs, tmpCacheFiles,
                    cacheIdx, outcome, runs, pre, processed, prevRun,
                    RestartVars, JanitorVars, LoopVars, stopObserved >>

\* before a merge on a server that allows archive and remove requests and has no
\* file yet
InitMergeLive ==
    /\ InitMerge
    /\ cfg.snapshot /\ cfg.allowArchive /\ cfg.allowRemove
    /\ DOMAIN db = {}

NextMergeLive ==
    \/ MergeStart(<< "d1" >>)
    \/ MergeFile
    \/ MergeRemove
    \/ MergeFinally
    \/ MergeAgain
    \/ SetStop
    \/ WriteCacheFile(<< "d1" >>)

SpecMergeLive == InitMergeLive /\ [][NextMergeLive]_vars

\* the cache files of the disk the step removes
Removed(diskId) == cache[diskId] \ cache'[diskId]

\* the merge has listed the name
IsListed(name) == \E i \in DOMAIN tmpCacheFiles : tmpCacheFiles[i] = name

\* C25: a cache file that is not empty is removed only when every cache file of
\* the list has been applied to the snapshot and the DB (or was empty) and the
\* snapshot has been synchronised; when a merge is stopped or fails, the cache
\* files it has applied are still there; a cache file written after the merge
\* has listed the directory is not removed by that merge.
C25_RemovedOnlyAfterMerged ==
    [][\A d \in Disks : \A cf \in Removed(d) :
          /\ d = curDisk
          /\ IsListed(cf.name)
          /\ ~IsEmptyFile(cf) =>
                /\ exc = "none"
                /\ cacheIdx > Len(tmpCacheFiles)
                /\ unsynced' = 0
                /\ \A i \in DOMAIN tmpCacheFiles :
                      \A x \in cache[d] :
                         (x.name = tmpCacheFiles[i] /\ ~IsEmptyFile(x)) =>
                             \E j \in DOMAIN processed : processed[j] = x]_vars

\* when a merge has been stopped or has failed, every cache file it has applied
\* is still in the directory
C25_AppliedFilesKeptOnFailure ==
    (pc = "done" /\ outcome \in {"failed", "stopped"}) =>
        \A j \in DOMAIN processed : processed[j] \in cache[curDisk]

\* a completed merge has removed the cache files it applied and left the one
\* written after it had listed the directory
C25_Witness ==
    /\ pc = "done" /\ outcome = "completed"
    /\ processed # << >>
    /\ \A j \in DOMAIN processed : processed[j] \notin cache[curDisk]
    /\ \E cf \in cache[curDisk] : ~IsListed(cf.name)

\* a merge has failed after it had applied a cache file
C25_WitnessFailed ==
    /\ pc = "done" /\ outcome \in {"failed", "stopped"}
    /\ processed # << >>

----------------------------------------------------------------------------
(* Cache files of size 0 *)

\* the merge is at a cache file of size 0 and takes its step
StepAtEmptyFile ==
    /\ pc = "mergeLoop"
    /\ cacheIdx <= Len(tmpCacheFiles)
    /\ ~stopEvt
    /\ CacheFile(cache[curDisk], tmpCacheFiles[cacheIdx]).kind = "empty"
    /\ << pc, cacheIdx, exc, cache >>' # << pc, cacheIdx, exc, cache >>

\* C26: a cache file of size 0 is removed without being applied: the snapshots
\* and the DB are unchanged, no exception is raised and the merge goes on with
\* the next cache file of the list.
C26_EmptyFileRemovedUnprocessed ==
    [][StepAtEmptyFile =>
          /\ cache'[curDisk] =
                cache[curDisk] \ {CacheFile(cache[curDisk], tmpCacheFiles[cacheIdx])}
          /\ snap' = snap
          /\ db' = db
          /\ processed' = processed
          /\ exc' = exc
          /\ pc' = "mergeLoop"
          /\ cacheIdx' = cacheIdx + 1]_vars

\* every cache file of the list the merge has passed has been applied, or it
\* was of size 0 and is removed
C26_PassedFilesAppliedOrRemoved ==
    pc = "mergeLoop" =>
        \A i \in 1..(cacheIdx - 1) :
            \/ \E j \in DOMAIN processed : processed[j].name = tmpCacheFiles[i]
            \/ \A cf \in cache[curDisk] : cf.name # tmpCacheFiles[i]

\* a completed merge of a cache file of size 0 followed by an insert: the file
\* of size 0 was removed, the insert was applied
C26_Witness ==
    /\ pc = "done" /\ outcome = "completed"
    /\ Len(tmpCacheFiles) = 2
    /\ Len(processed) = 1
    /\ processed[1].name = tmpCacheFiles[2]
    /\ processed[1].operation = NGAMS_DB_CH_FILE_INSERT
    /\ has_key(snap[curDisk].data, GenFileKey(processed[1].infos[1]))
    /\ ~has_key(pre.snap[curDisk].data, GenFileKey(processed[1].infos[1]))

----------------------------------------------------------------------------
(* Writes to the snapshot that no sync() has followed *)

\* the pass over the disk has run through both loops
PassCompleted == pc = "finally" /\ exc = "none" /\ snapshotDbm # 0

\* C27: at every point of a full check and of a merge, no more writes and
\* deletions than one batch of SYNC_PERIOD entries have been made to the snapshot
\* without a sync() after them, and none is left when the pass over a disk or
\* the merge has completed.
C27_UnsyncedWithinOneBatch ==
    /\ unsynced <= SYNC_PERIOD
    /\ PassCompleted => unsynced = 0
    /\ (pc = "done" /\ outcome = "completed") => unsynced = 0

\* what holds of it: nothing is left without a sync() when the pass over a disk
\* has completed, and in the loop over the temporary snapshot (Pass B) the
\* writes without a sync() stay within one batch
C27_SyncedWhenPassCompletes ==
    /\ PassCompleted => unsynced = 0
    /\ phase = "B" => unsynced < SYNC_PERIOD

\* a completed merge has synchronised the snapshot
C27_SyncedWhenMergeCompletes ==
    (pc = "done" /\ outcome = "completed") => unsynced = 0

\* the loop over the deletion DBM has removed more than two batches of entries
\* and no sync() has been made
C27_Witness == phase = "del" /\ unsynced > 2 * SYNC_PERIOD

----------------------------------------------------------------------------
(* The stop event in the loops over the stores *)

\* the step is an iteration of Pass A or Pass B that calls os.path.exists for
\* its entry
ChecksFileStep ==
    \/ /\ pc = "passA" /\ phase = "A" /\ todo # {}
       /\ todo' # todo
       /\ ChecksFileA(snap[curDisk].data, NextKey(todo))
    \/ /\ pc = "passB" /\ phase = "B" /\ todo # {}
       /\ todo' # todo
       /\ ChecksFileB(snap[curDisk].data, tmp, NextKey(todo))

\* C28: in the loops of Pass A and Pass B the stop event is checked for every
\* entry before the existence of its file is checked: once the stop event is
\* set, no iteration checks the existence of a file, and none inserts a row into
\* the DB or deletes one.
C28_NoFileCheckAfterStop ==
    [][stopEvt => (~ChecksFileStep /\ (phase \in {"A", "B"} => db' = db))]_vars

\* an iteration has checked the existence of a file, and changed the DB, while
\* the stop event was set
C28_Witness ==
    /\ stopEvt
    /\ phase \in {"A", "B"}
    /\ sinceStop > 0
    /\ db # pre.db

\* the stop event is checked, and the stop exception raised, at the end of the
\* iteration that brings the count to a multiple of SYNC_PERIOD
C28_StopCheckedEveryPeriod ==
    [][(stopEvt /\ phase \in {"A", "B"} /\ entryCount' # entryCount
            /\ entryCount' % SYNC_PERIOD = 0)
          => (exc' = "stop" /\ pc' = "finally")]_vars

\* C29: once the stop event has been set while a loop of Pass A or Pass B was
\* running, the loops iterate over at most SYNC_PERIOD further entries, the
\* entries that cannot be decoded included, before the stop exception is raised.
C29_StopWithinOnePeriod ==
    stopInLoop => sinceStop <= SYNC_PERIOD

\* an entry that cannot be decoded leaves the count, and so the distance to the
\* next check of the stop event, as it is
C29_UndecodableNotCounted ==
    [][(phase = "A" /\ todo # {} /\ todo' # todo /\ ~CountedA(snap[curDisk].data, NextKey(todo)))
          => (entryCount' = entryCount /\ exc' = exc)]_vars

\* the stop event was set while a loop was running and the stop exception has
\* been raised by the loop
C29_Witness ==
    /\ stopInLoop
    /\ exc = "stop"
    /\ pc = "finally"
    /\ sinceStop > 0

----------------------------------------------------------------------------
(* The maps name -> ID and ID -> name of a snapshot *)

\* the passes over the disk
MaxEncPasses == 1

\* the disk and the row the maps are followed on
EncDisk == << "d1" >>
EncRow == Row(EncDisk, << "f" >>, Ver1, << "c1" >>)

\* lines 531-546: a pass over the disk begins: the temporary snapshot is made
\* anew from the rows of the DB, each row encoded with _encFileInfo, and the
\* loop over the snapshot starts
EncBuildTmp ==
    /\ phase = "none"
    /\ runs < MaxEncPasses
    /\ runs' = runs + 1
    /\ tmp' = AddRows(EmptyStore, dumpFileInfoList(db, EncDisk))
    /\ phase' = "A"
    /\ todo' = DOMAIN snap[EncDisk].data
    /\ snapshotDelDbm' = {}
    /\ UNCHANGED << cfg, db, fs, snap, corrupt, cache, stopEvt, pc, diskIdx,
                    curDisk, snapshotDbm, tmpSnapshotDbm, lostFileRefsDbm, exc,
                    handles, notifs, outcome, pre, MergeVars, RestartVars,
                    JanitorVars, stopObserved, entryCount, unsynced, sinceStop,
                    stopInLoop >>

\* lines 583-630: one entry of the loop over the snapshot, in whatever order the
\* hash file gives its keys; an administrative element the temporary snapshot lacks is copied
\* to it
EncPassA ==
    /\ phase = "A"
    /\ \E key \in todo :
         LET st == PassAEntry([tmp |-> tmp, db |-> db, del |-> snapshotDelDbm,
                               lost |-> lostFileRefsDbm],
                              cfg, fs, snap[EncDisk].data, EncDisk, key)
         IN  /\ tmp' = st.tmp
             /\ db' = st.db
             /\ snapshotDelDbm' = st.del
             /\ lostFileRefsDbm' = st.lost
             /\ todo' = todo \ {key}
    /\ UNCHANGED << cfg, fs, snap, corrupt, cache, stopEvt, pc, diskIdx, curDisk,
                    snapshotDbm, tmpSnapshotDbm, exc, handles, notifs, outcome,
                    runs, pre, MergeVars, RestartVars, JanitorVars, stopObserved,
                    phase, entryCount, unsynced, sinceStop, stopInLoop >>

\* lines 661-696: the scheduled deletions are made, the loop over the temporary
\* snapshot starts
EncPassAEnd ==
    /\ phase = "A"
    /\ todo = {}
    /\ snap' = [snap EXCEPT ![EncDisk].data = DelLoop(@, snapshotDelDbm)]
    /\ snapshotDelDbm' = {}
    /\ phase' = "B"
    /\ todo' = DOMAIN tmp
    /\ UNCHANGED << cfg, db, fs, corrupt, cache, stopEvt, pc, diskIdx, curDisk,
                    snapshotDbm, tmpSnapshotDbm, tmp, lostFileRefsDbm, exc,
                    handles, notifs, outcome, runs, pre, MergeVars, RestartVars,
                    JanitorVars, stopObserved, entryCount, unsynced, sinceStop,
                    stopInLoop >>

\* lines 697-728: one entry of the loop over the temporary snapshot, in whatever
\* order the hash file gives its keys; an administrative element the snapshot lacks is copied
\* to it
EncPassB ==
    /\ phase = "B"
    /\ \E key \in todo :
         LET st == PassBEntry([snap |-> snap[EncDisk].data, db |-> db],
                              cfg, fs, tmp, EncDisk, key)
         IN  /\ snap' = [snap EXCEPT ![EncDisk].data = st.snap]
             /\ db' = st.db
             /\ todo' = todo \ {key}
    /\ UNCHANGED << cfg, fs, corrupt, cache, stopEvt, pc, diskIdx, curDisk,
                    snapshotDbm, tmpSnapshotDbm, tmp, snapshotDelDbm,
                    lostFileRefsDbm, exc, handles, notifs, outcome, runs, pre,
                    MergeVars, RestartVars, JanitorVars, stopObserved, phase,
                    entryCount, unsynced, sinceStop, stopInLoop >>

\* lines 746-757: the loop over the temporary snapshot has ended
EncPassBEnd ==
    /\ phase = "B"
    /\ todo = {}
    /\ phase' = "none"
    /\ UNCHANGED << cfg, db, fs, snap, corrupt, cache, stopEvt, pc, diskIdx,
                    curDisk, snapshotDbm, tmpSnapshotDbm, tmp, snapshotDelDbm,
                    lostFileRefsDbm, exc, handles, notifs, outcome, runs, pre,
                    MergeVars, RestartVars, JanitorVars, stopObserved, todo,
                    entryCount, unsynced, sinceStop, stopInLoop >>

\* lines 636, 735, 752-757: the stop exception is raised at the end of an
\* iteration (the count of the entries, file entries included, being at a
\* multiple of 100) and the pass is left through the finally block
EncAbort ==
    /\ phase \in {"A", "B"}
    /\ phase' = "none"
    /\ todo' = {}
    /\ exc' = "stop"
    /\ UNCHANGED << cfg, db, fs, snap, corrupt, cache, stopEvt, pc, diskIdx,
                    curDisk, snapshotDbm, tmpSnapshotDbm, tmp, snapshotDelDbm,
                    lostFileRefsDbm, handles, notifs, outcome, runs, pre,
                    MergeVars, RestartVars, JanitorVars, stopObserved,
                    entryCount, unsynced, sinceStop, stopInLoop >>

\* lines 878-892: between two passes a merge applies a cache file about the row:
\* the row is encoded with _encFileInfo in the snapshot
EncMerge ==
    /\ phase = "none"
    /\ \E operation \in {NGAMS_DB_CH_FILE_INSERT, NGAMS_DB_CH_FILE_DELETE} :
         LET st == ApplyInfo([snap |-> snap[EncDisk].data, db |-> db,
                              raised |-> FALSE], operation, EncRow)
         IN  /\ snap' = [snap EXCEPT ![EncDisk].data = st.snap]
             /\ db' = st.db
    /\ UNCHANGED << cfg, fs, corrupt, cache, stopEvt, pc, diskIdx, curDisk,
                    snapshotDbm, tmpSnapshotDbm, tmp, snapshotDelDbm,
                    lostFileRefsDbm, exc, handles, notifs, outcome, runs, pre,
                    MergeVars, RestartVars, JanitorVars, stopObserved, LoopVars >>

\* a server that allows archive and remove requests; the snapshot of the disk is
\* new; the row may be in the DB, its file is on disk
InitEnc ==
    /\ cfg = [snapshot |-> TRUE, allowArchive |-> TRUE, allowRemove |-> TRUE]
    /\ \E inDb \in BOOLEAN :
          db = [k \in {DbKey(r) : r \in IF inDb THEN {EncRow} ELSE {}} |-> EncRow]
    /\ fs = [d \in Disks |->
                IF d = EncDisk THEN {EncRow[NGAS_FILES_FILE_NAME]} ELSE {}]
    /\ snap = [d \in Disks |->
                IF d = EncDisk THEN [exists |-> TRUE, data |-> EmptyStore]
                ELSE [exists |-> FALSE, data |-> EmptyStore]]
    /\ corrupt = [d \in Disks |-> FALSE]
    /\ cache = [d \in Disks |-> {}]
    /\ jpc = "off"
    /\ suspendTime = 0
    /\ InitLocals

NextEnc ==
    \/ EncBuildTmp
    \/ EncPassA
    \/ EncPassAEnd
    \/ EncPassB
    \/ EncPassBEnd
    \/ EncAbort
    \/ EncMerge

SpecEnc == InitEnc /\ [][NextEnc]_vars

\* the names of the columns and the IDs a store may hold
ColNames == {NgasFilesMap[n] : n \in Cols}
ColIds == 0..(2 * Len(NgasFilesMap))

\* the names the store has an ID for, and the ID of a name
Mapped(store) == {name \in ColNames : has_key(store, NGAMS_SN_SH_NM2ID_TAG \o name)}
IdOf(store, name) == store[NGAMS_SN_SH_NM2ID_TAG \o name]

\* the IDs the store has allocated: those of the names and those with a name
Allocated(store) ==
    {IdOf(store, name) : name \in Mapped(store)}
    \cup {i \in ColIds : has_key(store, NGAMS_SN_SH_ID2NM_TAG \o << Str(i) >>)}

\* _encName gives the same ID for the same name, also for a name it has just
\* given its ID
SameIdForSameName(store) ==
    \A name \in ColNames :
        LET r == encName(store, name)
        IN  /\ name \in Mapped(store) => r.nameId = IdOf(store, name)
            /\ encName(r.dbm, name).nameId = r.nameId

DistinctIds(store) ==
    \A n1, n2 \in Mapped(store) : n1 # n2 => IdOf(store, n1) # IdOf(store, n2)

MapsBack(store) ==
    \A name \in Mapped(store) :
        LET id2NmTag == NGAMS_SN_SH_ID2NM_TAG \o << Str(IdOf(store, name)) >>
        IN  has_key(store, id2NmTag) /\ store[id2NmTag] = name

CounterCoversIds(store) ==
    \A i \in Allocated(store) :
        has_key(store, NGAMS_SN_SH_MAP_COUNT) /\ store[NGAMS_SN_SH_MAP_COUNT] >= i

C30_SameIdForSameName ==
    \A store \in {snap[EncDisk].data, tmp} : SameIdForSameName(store)

\* a store only _encName has written has all four properties: the snapshot as
\* long as no pass has copied into it, the temporary snapshot when the loop over
\* the snapshot begins
C30_EncodedStoreConsistent ==
    /\ runs = 0 =>
          LET store == snap[EncDisk].data
          IN  MapsBack(store) /\ CounterCoversIds(store)
    /\ (phase = "A" /\ todo = DOMAIN snap[EncDisk].data) =>
          (MapsBack(tmp) /\ CounterCoversIds(tmp))

\* a pass has been left while it copied the administrative elements and a merge
\* has encoded a row after it: two names of the snapshot have the same ID
C30_Witness ==
    /\ phase = "none"
    /\ runs > 0
    /\ ~DistinctIds(snap[EncDisk].data)

----------------------------------------------------------------------------
(* _encName when an earlier call was cut short *)

\* the calls of _encName that are followed
MaxEncCalls == 4

\* lines 240-257: _encName for a name without ID, left after the first k of its
\* three writes (count, name -> ID, ID -> name)
encNamePrefix(store, name, k) ==
    LET nm2IdTag == NGAMS_SN_SH_NM2ID_TAG \o name
        count == IF has_key(store, NGAMS_SN_SH_MAP_COUNT)
                 THEN store[NGAMS_SN_SH_MAP_COUNT] + 1
                 ELSE 0
        nameId == count
        s1 == addInDbm(store, NGAMS_SN_SH_MAP_COUNT, count)
        s2 == addInDbm(s1, nm2IdTag, nameId)
    IN  IF k = 0 THEN store ELSE IF k = 1 THEN s1 ELSE s2

\* _encName(dbSnapshot, name) runs to its end on the temporary snapshot
EncNameCall(name) ==
    /\ entryCount < MaxEncCalls
    /\ entryCount' = entryCount + 1
    /\ tmp' = encName(tmp, name).dbm
    /\ todo' = {name}
    /\ UNCHANGED << cfg, db, fs, snap, corrupt, cache, stopEvt, pc, diskIdx,
                    curDisk, snapshotDbm, tmpSnapshotDbm, snapshotDelDbm,
                    lostFileRefsDbm, exc, handles, notifs, outcome, runs, pre,
                    MergeVars, RestartVars, JanitorVars, stopObserved, phase,
                    unsynced, sinceStop, stopInLoop >>

\* _encName(dbSnapshot, name) for a name without ID is cut short (the process
\* ends) after one or two of its three writes
EncNameInterrupted(name) ==
    /\ entryCount < MaxEncCalls
    /\ ~has_key(tmp, NGAMS_SN_SH_NM2ID_TAG \o name)
    /\ entryCount' = entryCount + 1
    /\ \E k \in {1, 2} : tmp' = encNamePrefix(tmp, name, k)
    /\ todo' = {}
    /\ UNCHANGED << cfg, db, fs, snap, corrupt, cache, stopEvt, pc, diskIdx,
                    curDisk, snapshotDbm, tmpSnapshotDbm, snapshotDelDbm,
                    lostFileRefsDbm, exc, handles, notifs, outcome, runs, pre,
                    MergeVars, RestartVars, JanitorVars, stopObserved, phase,
                    unsynced, sinceStop, stopInLoop >>

\* an empty store
InitEncFail ==
    /\ cfg = [snapshot |-> TRUE, allowArchive |-> TRUE, allowRemove |-> TRUE]
    /\ db = EmptyStore
    /\ fs = [d \in Disks |-> {}]
    /\ snap = [d \in Disks |-> [exists |-> FALSE, data |-> EmptyStore]]
    /\ corrupt = [d \in Disks |-> FALSE]
    /\ cache = [d \in Disks |-> {}]
    /\ jpc = "off"
    /\ suspendTime = 0
    /\ InitLocals

NextEncFail ==
    \/ \E name \in ColNames : EncNameCall(name)
    \/ \E name \in ColNames : EncNameInterrupted(name)

SpecEncFail == InitEncFail /\ [][NextEncFail]_vars

\* the ID of the name leads back to the name
DecodesBack(store, name) ==
    /\ has_key(store, NGAMS_SN_SH_NM2ID_TAG \o name)
    /\ LET id2NmTag == NGAMS_SN_SH_ID2NM_TAG \o << Str(IdOf(store, name)) >>
       IN  has_key(store, id2NmTag) /\ store[id2NmTag] = name

\* the name has an entry name -> ID whose ID has no entry ID -> name
HalfWritten(store, name) ==
    /\ has_key(store, NGAMS_SN_SH_NM2ID_TAG \o name)
    /\ ~has_key(store, NGAMS_SN_SH_ID2NM_TAG \o << Str(IdOf(store, name)) >>)

\* C31: after a call of _encName for a name that ran to its end, also one that
\* follows a call for the same name that was cut short after one or two of its
\* three writes, the ID of the name has an entry ID -> name that leads back to
\* the name.
C31_ReEncodeDecodesBack ==
    \A name \in todo : DecodesBack(tmp, name)

\* C31, part that holds: a call that ran to its end for a name without an entry
\* name -> ID (the earlier call was cut short after the write of the counter, or
\* there was none) leaves the three entries, and its ID is above every ID
\* allocated before.
C31_FreshIdWhenNameUnmapped ==
    [][\A name \in ColNames :
         (entryCount' # entryCount /\ todo' = {name}
          /\ ~has_key(tmp, NGAMS_SN_SH_NM2ID_TAG \o name))
         => /\ DecodesBack(tmp', name)
            /\ \A i \in Allocated(tmp) : IdOf(tmp', name) > i
            /\ tmp'[NGAMS_SN_SH_MAP_COUNT] = IdOf(tmp', name)]_vars

\* C31, part that holds: a call for a name with a recorded ID writes nothing
C31_RecordedIdTrusted ==
    [][\A name \in ColNames :
         (entryCount' # entryCount /\ todo' = {name}
          /\ has_key(tmp, NGAMS_SN_SH_NM2ID_TAG \o name))
         => tmp' = tmp]_vars

\* a call ran to its end for a name whose recorded ID has no entry ID -> name
C31_Witness ==
    \E name \in todo : HalfWritten(tmp, name)

----------------------------------------------------------------------------
(* entries of the snapshot that cannot be decoded *)

\* lines 583-593: a file entry of the store for which _encFileInfo2Obj gives None
Undecodable(store, key) ==
    /\ has_key(store, key)
    /\ ~IsAdminElement(key)
    /\ ~encFileInfo2Obj(store, store[key]).ok

\* the entries of the snapshot of the disk that could not be decoded when the
\* pass started
UndecodableBefore(diskId) ==
    {key \in DOMAIN pre.snap[diskId].data : Undecodable(pre.snap[diskId].data, key)}

\* the rows of the DB with the key of the entry
RowsOfKey(d, diskId, key) ==
    {r \in dumpFileInfoList(d, diskId) : GenFileKey(r) = key}

\* the pass has started
InPass == runs > 0 /\ pc # "idle"

EntryKept(diskId, key) ==
    /\ has_key(snap[diskId].data, key)
    /\ snap[diskId].data[key] = pre.snap[diskId].data[key]

DbKeptFor(diskId, key) ==
    RowsOfKey(db, diskId, key) = RowsOfKey(pre.db, diskId, key)

\* the pass over the snapshot without its undecodable entries
PassWithout(diskId) ==
    LET all == pre.snap[diskId].data
        data == [k \in (DOMAIN all) \ UndecodableBefore(diskId) |-> all[k]]
        a == PassALoop([tmp |-> AddRows(EmptyStore, dumpFileInfoList(pre.db, diskId)),
                        db |-> pre.db, del |-> {}, lost |-> EmptyStore],
                       cfg, pre.fs, data, diskId, DOMAIN data)
        b == PassBLoop([snap |-> DelLoop(data, a.del), db |-> a.db],
                       cfg, pre.fs, a.tmp, diskId, DOMAIN a.tmp)
    IN  [snap |-> b.snap, db |-> b.db]

SmallStores == \A d \in Disks : Cardinality(DOMAIN pre.snap[d].data) <= 20

\* the other file entries are as the pass without the undecodable entries
\* leaves them
OthersAsWithout(diskId) ==
    LET w == PassWithout(diskId)
        others(store) == {k \in DOMAIN store : ~IsAdminElement(k)}
                            \ UndecodableBefore(diskId)
    IN  /\ others(snap[diskId].data) = others(w.snap)
        /\ \A k \in others(w.snap) : snap[diskId].data[k] = w.snap[k]
        /\ {r \in dumpFileInfoList(db, diskId) :
                GenFileKey(r) \notin UndecodableBefore(diskId)}
           = {r \in dumpFileInfoList(w.db, diskId) :
                GenFileKey(r) \notin UndecodableBefore(diskId)}

\* C32: an entry of the snapshot that cannot be decoded is skipped: the pass is
\* not left by an error, the entry stays in the snapshot with its value, no row
\* of the DB with its key is written or deleted, and when the pass has
\* completed every other file entry of snapshot and DB is as the pass without
\* the undecodable entries leaves it.
C32_UndecodableSkipped ==
    InPass =>
        \A d \in Disks :
            /\ \A key \in UndecodableBefore(d) :
                  /\ exc # "error"
                  /\ EntryKept(d, key)
                  /\ DbKeptFor(d, key)
            /\ (Completed /\ SmallStores /\ UndecodableBefore(d) # {})
                  => OthersAsWithout(d)

\* C32, part that holds: when the snapshot may be updated, no error leaves the
\* pass over a snapshot with undecodable entries
C32_NoAbortWhenWritable ==
    InPass => \A d \in Disks : \A key \in UndecodableBefore(d) :
                  updateSnapshot(cfg) => exc # "error"

\* C32, part that holds: the undecodable entry keeps its value as long as Pass B
\* has not come to a row of the DB with its key while the snapshot may be
\* updated
C32_EntryKeptUnlessRefreshed ==
    InPass => \A d \in Disks : \A key \in UndecodableBefore(d) :
                  (~updateSnapshot(cfg) \/ RowsOfKey(pre.db, d, key) = {}
                   \/ (curDisk = d /\ pc \in {"build", "passA", "del"}))
                  => EntryKept(d, key)

\* C32, part that holds: no row of the DB with the key of an undecodable entry
\* is written or deleted
C32_DbKept ==
    InPass => \A d \in Disks : \A key \in UndecodableBefore(d) : DbKeptFor(d, key)

\* C32, part that holds: the other file entries are reconciled as without the
\* undecodable entries
C32_Others ==
    \A d \in Disks :
        (Completed /\ SmallStores /\ UndecodableBefore(d) # {}) => OthersAsWithout(d)

\* Pass B has replaced an undecodable entry of the snapshot by the row of the DB
C32_Witness ==
    /\ Completed
    /\ \E d \in Disks : \E key \in UndecodableBefore(d) :
          /\ has_key(snap[d].data, key)
          /\ snap[d].data[key] # pre.snap[d].data[key]
          /\ ~Undecodable(snap[d].data, key)

\* the pass over a snapshot opened read-only is left by an error when the
\* snapshot lacks a name of a column ID
C32_WitnessAbort ==
    /\ InPass
    /\ exc = "error"
    /\ ~updateSnapshot(cfg)
    /\ \E d \in Disks : UndecodableBefore(d) # {}

----------------------------------------------------------------------------
(* administrative elements *)

HasPrefix(s, p) == Len(s) >= Len(p) /\ SubSeq(s, 1, Len(p)) = p

\* the keys _encName writes: the counter, name -> ID and ID -> name
IsAdminKey(key) ==
    \/ key = NGAMS_SN_SH_MAP_COUNT
    \/ HasPrefix(key, NGAMS_SN_SH_NM2ID_TAG)
    \/ HasPrefix(key, NGAMS_SN_SH_ID2NM_TAG)

AdminKeys(store) == {k \in DOMAIN store : IsAdminKey(k)}

\* an administrative key of a snapshot stays, with its value
AdminKeysKept ==
    \A d \in Disks :
        (snap[d].exists /\ snap'[d].exists) =>
            \A k \in AdminKeys(snap[d].data) :
                /\ has_key(snap'[d].data, k)
                /\ snap'[d].data[k] = snap[d].data[k]

\* the two stores of the disk of a completed pass hold the same administrative
\* keys
AdminKeysPropagated ==
    (pc = "passB" /\ pc' = "finally" /\ exc' = "none") =>
        AdminKeys(tmp') = AdminKeys(snap'[curDisk].data)

\* the loops of Pass A and Pass B take a key for an administrative element only
\* if it is one
NoFileKeyTakenForAdmin ==
    /\ pc = "passA" =>
          \A k \in DOMAIN snap[curDisk].data : IsAdminElement(k) => IsAdminKey(k)
    /\ pc = "passB" =>
          \A k \in DOMAIN tmp : IsAdminElement(k) => IsAdminKey(k)

\* C33: no step of the reconciliation deletes an administrative key of a
\* snapshot or gives it another value; after a completed pass over a disk the
\* temporary snapshot and the snapshot hold the same administrative keys; and
\* no key of a file is taken for an administrative key by the loops.
C33_AdminKeysApart ==
    [][AdminKeysKept /\ AdminKeysPropagated /\ NoFileKeyTakenForAdmin']_vars

\* C33, parts that hold: administrative keys are never deleted and never
\* overwritten, by the reconciliation (Spec) and by the merge (SpecMerge)
C33_AdminKeysKept == [][AdminKeysKept]_vars

\* C33, part that holds: every key the stores have for an administrative
\* element is taken for one
C33_AdminKeysTakenForAdmin ==
    \A d \in Disks : \A k \in AdminKeys(snap[d].data) \cup AdminKeys(tmp) :
        IsAdminElement(k) /\ SkippedByDeletion(k)

\* C33, part that holds: Pass A and Pass B leave the two stores with the same
\* administrative keys
C33_AdminKeysPropagated == [][AdminKeysPropagated]_vars

\* Pass B has copied the entry of a file from the temporary snapshot as an
\* administrative element: the file is not on disk and the snapshot may not be
\* updated, and the key is in the snapshot
C33_Witness ==
    /\ pc = "finally"
    /\ exc = "none"
    /\ \E k \in DOMAIN tmp :
          /\ ~IsAdminKey(k)
          /\ IsAdminElement(k)
          /\ ~has_key(pre.snap[curDisk].data, k)
          /\ has_key(snap[curDisk].data, k)

----------------------------------------------------------------------------
(* the full check in the life of the janitor thread *)

\* the full check has run and returned
SweepReturned == outcome \in {"off", "completed", "failed", "stopped"}

\* the places of the full check between its start and its return
SweepPcs == {"loop", "build", "passA", "del", "passB", "finally", "report", "exit"}

\* the temporary snapshots opened for the disk: one for every full check of it
\* that came to the dump of the DB
FullChecksOf(h, d) ==
    Cardinality({i \in DOMAIN h : h[i].kind = "tmp" /\ h[i].disk = d})

C34_StartupTakesEveryDisk ==
    [][(jpc = "startup" /\ jpc' # "startup" /\ outcome = "completed")
          => diskIdx > Len(diskIdMtPtList)]_vars

----------------------------------------------------------------------------
(* a second full check right after a completed one *)

\* the entries of the files in a snapshot
FileEntries(store) == [k \in (DOMAIN store) \ AdminKeys(store) |-> store[k]]

\* a full check has completed right after a completed full check
SecondPassCompleted ==
    /\ Completed
    /\ history # << >>
    /\ history[Len(history)].outcome = "completed"

\* C35: a full check that completes right after a completed full check, with
\* nothing changed in between, leaves the DB and the file entries of every
\* snapshot (keys and values) as it found them.
C35_SecondPassChangesNothing ==
    SecondPassCompleted =>
        /\ db = pre.db
        /\ \A d \in Disks :
              /\ snap[d].exists = pre.snap[d].exists
              /\ FileEntries(snap[d].data) = FileEntries(pre.snap[d].data)

\* C35, more than claimed: the administrative elements stay as well
C35_SecondPassKeepsAdminKeys ==
    SecondPassCompleted => snap = pre.snap

\* the first of the two full checks changed the DB and a snapshot
C35_Witness ==
    /\ SecondPassCompleted
    /\ history[Len(history)].pre.db # db
    /\ \E d \in Disks :
          FileEntries(history[Len(history)].pre.snap[d].data) # FileEntries(snap[d].data)

\* the files of InitFiles with snapshots in which an earlier _encName for the
\* first column was cut short before its write of ID -> name (encNamePrefix
\* with k = 2): the snapshots lack the name of column ID 0
InitFilesHalfMapped(S, st, ex) ==
    /\ db = [k \in {<< x[1], x[2], Ver1 >> : x \in {y \in S : st[y].inDb}} |->
                Row(k[1], k[2], Ver1, << "c1" >>)]
    /\ fs = [d \in Disks |->
                {Filename(x[2], Ver1) : x \in {y \in S : y[1] = d /\ st[y].onDisk}}]
    /\ snap = [d \in Disks |->
                LET mine == {y \in S : y[1] = d /\ st[y].inSnap}
                    rows == {Row(d, y[2], Ver1,
                                 IF st[y].stale THEN << "c2" >> ELSE << "c1" >>) :
                             y \in mine}
                IN  IF mine = {} THEN [exists |-> ex[d], data |-> EmptyStore]
                    ELSE [exists |-> TRUE,
                          data |-> delInDbm(AddRows(EmptyStore, rows),
                                            NGAMS_SN_SH_ID2NM_TAG \o << Str(0) >>)]]

InitHalfMapped ==
    /\ cfg \in Cfgs
    /\ \E S \in SUBSET FileSlots :
         /\ Cardinality(S) <= MaxFiles
         /\ \E st \in [S -> SlotStates], ex \in [Disks -> BOOLEAN] :
              InitFilesHalfMapped(S, st, ex)
    /\ corrupt = [d \in Disks |-> FALSE]
    /\ cache = [d \in Disks |-> {}]
    /\ jpc = "off"
    /\ suspendTime = 0
    /\ InitLocals

SpecRestartHalfMapped == InitHalfMapped /\ [][NextRestart]_vars

\* C35 for all snapshots the full check can find: also over a snapshot that
\* lacks the name of a column ID, a full check that completes right after a
\* completed full check leaves the DB and the file entries of every snapshot as
\* it found them.
C35_FixPoint ==
    SecondPassCompleted =>
        /\ db = pre.db
        /\ \A d \in Disks :
              FileEntries(snap[d].data) = FileEntries(pre.snap[d].data)

----------------------------------------------------------------------------
(* the snapshot of a server that allows neither archive nor remove requests *)

\* Pass B is about to assign to the snapshot: the temporary snapshot has an
\* administrative element the snapshot lacks (lines 702-704)
AdminWriteAttempted ==
    /\ pc = "passB"
    /\ AdminWrites(tmp, snap[curDisk].data) # {}

\* the deletion loop is about to delete from the snapshot (line 669)
DeletionAttempted ==
    /\ pc = "del"
    /\ \E key \in snapshotDelDbm : ~SkippedByDeletion(key)

\* C36: when neither archive nor remove requests are allowed, no step of the
\* full check writes to a snapshot or deletes from it, and none attempts to:
\* not for the key of a file, not for an administrative key.
C36_ReadOnlyNoSnapshotWrite ==
    [][~updateSnapshot(cfg) =>
          /\ snap' = snap
          /\ ~AdminWriteAttempted
          /\ ~DeletionAttempted]_vars

\* C36, part that holds: the snapshots are left as they are, no deletion is
\* scheduled, and no missing store is created
C36_ReadOnlySnapshotUnchanged ==
    [][~updateSnapshot(cfg) =>
          /\ snap' = snap
          /\ snapshotDelDbm' = {}
          /\ ~DeletionAttempted]_vars

\* C36, part that holds: Pass B assigns to no file key of a store opened
\* read-only
C36_ReadOnlyNoFileKeyWrite ==
    (~updateSnapshot(cfg) /\ pc = "passB") =>
        \A key \in DOMAIN tmp :
            ~IsAdminElement(key) =>
                ~WritesB(cfg, fs, snap[curDisk].data, tmp, curDisk, key)

\* Pass B has come to the assignment of an administrative element to a store
\* opened read-only and was left by the error
C36_Witness ==
    /\ ~updateSnapshot(cfg)
    /\ pc = "finally"
    /\ exc = "error"
    /\ snapshotDbm \in DOMAIN handles
    /\ handles[snapshotDbm].mode = "r"
    /\ AdminWrites(tmp, snap[curDisk].data) # {}

----------------------------------------------------------------------------
(* the deletion DBM applied, key by key *)

\* the deletion loop has run over the deletion DBM
DeletionsApplied == pc = "del" /\ pc' # "del"

\* C37: when the deletion loop has run, no key that Pass A scheduled for
\* deletion is left in the snapshot, whatever characters its file id holds.
C37_EveryScheduledKeyRemoved ==
    [][DeletionsApplied =>
          \A key \in snapshotDelDbm : ~has_key(snap'[curDisk].data, key)]_vars

\* C37, part that holds: every scheduled key without "__" is removed, and
\* nothing else is
C37_PlainScheduledKeysRemoved ==
    [][DeletionsApplied =>
          /\ \A key \in snapshotDelDbm :
                ~SkippedByDeletion(key) => ~has_key(snap'[curDisk].data, key)
          /\ \A key \in DOMAIN snap[curDisk].data :
                key \notin snapshotDelDbm => has_key(snap'[curDisk].data, key)]_vars

\* the deletion loop has run and a key scheduled for deletion, of a file id
\* with "__", is still in the snapshot when Pass B starts
C37_Witness ==
    /\ pc = "passB"
    /\ \E key \in DOMAIN snap[curDisk].data :
          /\ SkippedByDeletion(key)
          /\ ~IsAdminElement(key)
          /\ ~has_key(tmp, key)
          /\ updateSnapshot(cfg)
          /\ LET o == encFileInfo2Obj(snap[curDisk].data, snap[curDisk].data[key])
             IN  o.ok /\ ~pathExists(fs, curDisk, getFilename(o.row))

----------------------------------------------------------------------------
(* what JanQue.get() gives the janitor thread *)

\* JanQue.get() of line 1133 has returned
ItemTaken == jpc = "get" /\ jpc' = "while"

\* C38: the item JanQue.get() returns to JanitorCycle before the suspension
\* loop is a list of disk-change events, never a run count.
C38_ItemTakenIsEventList ==
    [][ItemTaken => event_info_list'.kind = "events"]_vars

\* C38, part that holds: a run count the thread takes is one it has put itself,
\* and it takes it only when no event list stood before it on the queue
C38_CountTakenIsOwn ==
    [][(ItemTaken /\ event_info_list'.kind = "count")
          => /\ event_info_list'.n \in 1..runCount
             /\ Head(JanQue).kind = "count"]_vars

\* the thread has taken the run count it has put on the queue just before
C38_Witness ==
    /\ jpc = "while"
    /\ event_info_list.kind = "count"
    /\ event_info_list.n = runCount

----------------------------------------------------------------------------
(* the merges of one suspension *)

\* the loop over event_info_list starts (line 1141): updateDbSnapShots is called
\* for the first event of the list
EventLoopStarts == jpc = "while" /\ jpc' = "merge"

\* the loop over event_info_list has run before in this suspension
EventsTakenBefore == eventIdx > 0

\* C39: in one suspension the loop over the events taken from the queue runs at
\* most once: it does not start again in a later iteration of the suspension
\* loop, so no event is merged twice.
C39_EventsMergedOnce ==
    [][EventLoopStarts => ~EventsTakenBefore]_vars

\* C39, part that holds: in one iteration of the suspension loop the merge is
\* called once for each event of the list, in the order of the list
C39_OncePerEventAndIteration ==
    [][/\ EventLoopStarts => eventIdx' = 1
       /\ (jpc = "merge" /\ jpc' = "merge" /\ eventIdx' # eventIdx)
             => (eventIdx' = eventIdx + 1 /\ eventIdx' <= Len(event_info_list.disks))
       /\ (jpc = "merge" /\ jpc' = "suspend")
             => eventIdx = Len(event_info_list.disks)]_vars

\* the merge of the events is called again in a later iteration of the same
\* suspension
C39_Witness ==
    /\ jpc = "merge"
    /\ pc = "idle"
    /\ eventIdx = 1
    /\ elapsed > EVENT_SLEEP
    /\ event_info_list.kind = "events"
    /\ cache[event_info_list.disks[1]] = {}

----------------------------------------------------------------------------
(* Pass B beside a request handler that archives *)

\* lines 705-716: Pass B has found the key of the temporary snapshot missing in
\* the snapshot, has decoded the entry and is to test the path of the file
ChecksPathB(key) == ChecksFileB(snap[curDisk].data, tmp, key)

\* lines 697-738 without the call of _delFileEntry: one entry of the loop over
\* the temporary snapshot; when os.path.exists (line 716) has found no file,
\* the thread stands before the call of _delFileEntry (line 722)
RaceBCheck ==
    /\ pc = "passB"
    /\ phase = "B"
    /\ todo # {}
    /\ LET key == NextKey(todo)
       IN  IF /\ ChecksPathB(key)
              /\ ~pathExists(fs, curDisk,
                             getFilename(encFileInfo2Obj(tmp, tmp[key]).row))
           THEN /\ phase' = "Bdel"
                /\ UNCHANGED << cfg, stopObserved, stopInLoop, RestartVars,
                                JanitorVars, db, fs, snap, corrupt, stopEvt, pc,
                                diskIdx, curDisk, snapshotDbm, tmpSnapshotDbm,
                                tmp, snapshotDelDbm, lostFileRefsDbm, exc,
                                handles, notifs, outcome, pre, runs, MergeVars,
                                todo, entryCount, unsynced, sinceStop >>
           ELSE PassBIter

\* lines 722-738: _delFileEntry (lines 431-441) deletes the row of the DB if
\* there is one, then the count and, every SYNC_PERIOD entries, the sync and the
\* check of the stop event
RaceBDelete ==
    /\ pc = "passB"
    /\ phase = "Bdel"
    /\ LET key == NextKey(todo)
           tmpFileObj == encFileInfo2Obj(tmp, tmp[key]).row
           c2 == entryCount + 1
           check == c2 % SYNC_PERIOD = 0
       IN  /\ db' = delFileEntry(db, tmpFileObj)
           /\ todo' = todo \ {key}
           /\ entryCount' = c2
           /\ unsynced' = IF check /\ updateSnapshot(cfg) THEN 0 ELSE unsynced
           /\ IF check /\ stopEvt
              THEN exc' = "stop" /\ pc' = "finally" /\ phase' = "none"
              ELSE phase' = "B" /\ UNCHANGED << exc, pc >>
    /\ sinceStop' = IF stopEvt THEN sinceStop + 1 ELSE sinceStop
    /\ stopObserved' = (stopObserved \/ exc' = "stop")
    /\ UNCHANGED << cfg, stopInLoop, RestartVars, JanitorVars, fs, snap, corrupt,
                    stopEvt, diskIdx, curDisk, snapshotDbm, tmpSnapshotDbm, tmp,
                    snapshotDelDbm, lostFileRefsDbm, handles, notifs, outcome,
                    pre, runs, MergeVars >>

\* a request handler archives a file on disk d1 while the janitor thread runs:
\* it writes the file and then the row of the DB
HandlerArchive(row) ==
    /\ nEvents < MaxEvents
    /\ nEvents' = nEvents + 1
    /\ cfg.allowArchive
    /\ fs' = [fs EXCEPT ![row[NGAS_FILES_DISK_ID]] = @ \cup {getFilename(row)}]
    /\ db' = writeFileInfo(db, row)
    /\ UNCHANGED << cfg, snap, corrupt, cache, OpVars, stopObserved, pc, runs,
                    stopEvt, jpc, taskIdx, cycles, JanQue, event_info_list,
                    eventIdx, runCount, suspendTime, elapsed, arrived, logged,
                    tmpCacheFiles, cacheIdx, processed, prevRun >>

\* the rows a handler may archive: the versions of file id "f" on disk d1
ArchiveRows ==
    {Row(<< "d1" >>, << "f" >>, << Str(v) >>, << "c1" >>) : v \in 1..MaxSmall}

RaceProfiles ==
    {p \in Profiles : p.n <= MaxSmall /\ p.bad = "none" /\ p.fileId = << "f" >>}

InitRace ==
    /\ cfg \in PassCfgs
    /\ \E p \in RaceProfiles :
         /\ db = [k \in {DbKey(r) : r \in IF p.inDb THEN ProfileRows(p) ELSE {}} |->
                     Row(k[1], k[2], k[3], << "c1" >>)]
         /\ fs = [d \in Disks |->
                     IF d = << "d1" >> /\ p.onDisk
                     THEN {r[NGAS_FILES_FILE_NAME] : r \in ProfileRows(p)}
                     ELSE {}]
         /\ snap = [d \in Disks |->
                     IF d = << "d1" >>
                     THEN [exists |-> TRUE, data |-> ProfileSnapshot(p)]
                     ELSE [exists |-> FALSE, data |-> EmptyStore]]
    /\ corrupt = [d \in Disks |-> FALSE]
    /\ cache = [d \in Disks |-> {}]
    /\ jpc = "off"
    /\ suspendTime = 0
    /\ InitLocals

NextRace ==
    \/ SweepStart
    \/ DiskLoop
    \/ BuildTmp
    \/ PassABegin
    \/ PassAIter
    \/ PassAEnd
    \/ DelIter
    \/ DelEnd
    \/ RaceBCheck
    \/ RaceBDelete
    \/ PassBEnd
    \/ DiskFinally
    \/ SweepReport
    \/ SweepExit
    \/ \E row \in ArchiveRows : HandlerArchive(row)

SpecRace == InitRace /\ [][NextRace]_vars

\* a step of Pass B takes a row out of the DB
DeletesRow(k) ==
    /\ phase \in {"B", "Bdel"}
    /\ k \in DOMAIN db
    /\ k \notin DOMAIN db'

\* C40: Pass B takes a row out of the DB only if the file of the row is not on
\* the disk at the moment of the delete; a row that a request handler has
\* written, with its file, after the dump of the DB or after the test of the
\* path is not deleted.
C40_DeletesOnlyRowsOfAbsentFiles ==
    [][\A k \in DOMAIN db :
         DeletesRow(k) => ~pathExists(fs, k[1], getFilename(db[k]))]_vars

\* C40, part that holds: with no request handler at work between the test of
\* the path and the delete, the file of a deleted row is not on the disk
C40_NoRaceNoLoss ==
    [][\A k \in DOMAIN db :
         (DeletesRow(k) /\ nEvents = 0)
            => ~pathExists(fs, k[1], getFilename(db[k]))]_vars

\* C40, part that holds: a file archived before Pass B tests its path keeps its
\* row, and only the rows of the dump are deleted
C40_OnlyDumpedRowsDeleted ==
    [][\A k \in DOMAIN db :
         DeletesRow(k) => /\ phase = "Bdel"
                          /\ has_key(tmp, genFileKey(<< >>, k[2], k[3]))]_vars

\* Pass B has deleted the row of a file that is on the disk
C40_Witness ==
    /\ pc = "passB"
    /\ phase = "B"
    /\ nEvents > 0
    /\ \E row \in ArchiveRows :
          /\ pathExists(fs, << "d1" >>, getFilename(row))
          /\ DbKey(row) \notin DOMAIN db
          /\ has_key(tmp, GenFileKey(row))
          /\ GenFileKey(row) \notin todo

====
